---- MODULE Spec2Model ----
(***************************************************************************)
(* Model of the LLM pool of contract-langgraph:                            *)
(*   src/src/llm/manager.py           LLMManager (active set, cache pool,  *)
(*                                    reference counts, TTL/LRU cleanup)   *)
(*   src/src/llm/factory/openai.py    OpenAIFactory.create_llm /           *)
(*                                    create_service                       *)
(*   src/src/llm/service/*.py         OpenAIService (the per-caller handle)*)
(*                                                                         *)
(* The specifications share the state:                                     *)
(*   Spec     caller threads run create_service step by step (every        *)
(*            manager call is one atomic step, the manager's RLock), use   *)
(*            and release their handles; the reaper runs cleanup passes.   *)
(*   SpecMgr  the manager's public methods called directly, in any order.  *)
(*   SpecPool the same over three fingerprints, without create_llm: the    *)
(*            idle pool outgrows max_cache_size while an entry is active.  *)
(*   SpecReg  the agent registry (src/src/agent/agent_manager.py): its     *)
(*            methods called one after the other.                          *)
(*   SpecLife the manager's methods beside the reaper thread's loop and    *)
(*            shutdown(), with the reaper scheduled fairly.                *)
(*   SpecConc the registry's methods run by concurrent callers, with the   *)
(*            registry's and the manager's locks, beside a pool caller     *)
(*            and the reaper.                                              *)
(***************************************************************************)
EXTENDS Integers, Sequences, FiniteSets, TLC

\* ------------------------------------------------------------------ bounds
NumThreads == 2
MaxTime == 2
MaxRef == 3
MaxMgrRef == 2
\* cache_ttl and max_cache_size are constructor arguments of LLMManager
\* (defaults 3600.0 and 100); the model runs the manager with small values.
CacheTtl == 1
MaxCacheSize == 1
\* Registrations in a run of the agent registry.
MaxAgents == 2
\* The ghost count of cleanup passes after shutdown stops here.
MaxPassesCounted == 2

\* Python's None, for an absent LLM reference.  An LLM instance is named
\* <<h, k>>: the fingerprint h of the configuration it was built for, and a
\* number k that tells the instances built for h apart.
None == <<>>

Threads == 1..NumThreads

\* A configuration is a dict: a sequence of <<key, value>> items in insertion
\* order, with distinct keys.
\* The configurations the callers pass: one dict written in two orders, and a
\* different one.
Configs ==
    { << <<1, 1>>, <<2, 1>> >>,
      << <<2, 1>>, <<1, 1>> >>,
      << <<1, 1>> >> }

\* SpecPool fills the idle pool beyond max_cache_size while an entry is
\* active: one more configuration.
PoolConfigs == Configs \cup { << <<1, 2>>, <<2, 1>> >> }

\* --------------------------------------------------------- config hashing
\* Tuple order of Python: first component, then second.
ItemLess(p, q) == p[1] < q[1] \/ (p[1] = q[1] /\ p[2] < q[2])

\* sorted(config.items())
SortedItems(config) ==
    LET n == Len(config)
        rank(i) == Cardinality({j \in 1..n : ItemLess(config[j], config[i])}) + 1
    IN  [r \in 1..n |-> config[CHOOSE i \in 1..n : rank(i) = r]]

\* hashlib.md5(str(sorted(config.items()))).hexdigest(): the digest is
\* represented by the string it digests (md5 taken as collision-free).
ComputeConfigHash(config) == SortedItems(config)

Hashes == {ComputeConfigHash(c) : c \in Configs}
PoolHashes == {ComputeConfigHash(c) : c \in PoolConfigs}

\* ------------------------------------------------------------ dict helpers
DictPut(d, k, v) == [x \in (DOMAIN d) \cup {k} |-> IF x = k THEN v ELSE d[x]]
DictDel(d, k) == [x \in (DOMAIN d) \ {k} |-> d[x]]
EmptyDict == [x \in {} |-> None]

\* _cache_pool is a dict, which keeps insertion order: a sequence of
\* entries, each carrying its key in config_hash.
InPool(p, h) == \E i \in 1..Len(p) : p[i].config_hash = h
PoolGet(p, h) == p[CHOOSE i \in 1..Len(p) : p[i].config_hash = h]
PoolDel(p, h) == SelectSeq(p, LAMBDA e : e.config_hash # h)
PoolSet(p, h, e) ==
    IF InPool(p, h)
    THEN [i \in 1..Len(p) |-> IF p[i].config_hash = h THEN e ELSE p[i]]
    ELSE Append(p, e)
PoolKeys(p) == {p[i].config_hash : i \in 1..Len(p)}

\* LLMEntry (created_at and config are stored and never read: left out).
LLMEntry(llm, h, t) ==
    [llm |-> llm, config_hash |-> h, last_used_at |-> t,
     reference_count |-> 1, is_in_use |-> TRUE]

\* --------------------------------------------------------- manager methods
\* Each returns the maps after the call, the value returned and the branch
\* the call took.  t is time.time() read inside the call.

\* RegisterLlmOp without the look in the cache pool: always a new entry.
RegisterLlmIgnorePool(a, p, llm, h, t) ==
    [active |-> DictPut(a, h, LLMEntry(llm, h, t)),
     pool |-> p, ret |-> llm, branch |-> "new"]

RegisterLlmOp(a, p, llm, h, t) ==
    IF InPool(p, h)
    THEN LET e == PoolGet(p, h)
         IN  [active |-> DictPut(a, h, [e EXCEPT !.is_in_use = TRUE,
                                                 !.reference_count = 1,
                                                 !.last_used_at = t]),
              pool |-> PoolDel(p, h), ret |-> e.llm, branch |-> "revive"]
    ELSE [active |-> DictPut(a, h, LLMEntry(llm, h, t)),
          pool |-> p, ret |-> llm, branch |-> "new"]

\* GetLlmOp that, finding no entry for h, takes whatever entry is idle.
GetLlmAnyIdle(a, p, h, t) ==
    IF h \in DOMAIN a
    THEN [active |-> [a EXCEPT ![h].last_used_at = t,
                               ![h].reference_count = @ + 1],
          pool |-> p, ret |-> a[h].llm, branch |-> "hit"]
    ELSE IF Len(p) > 0
    THEN LET e == IF InPool(p, h) THEN PoolGet(p, h) ELSE p[1]
         IN  [active |-> DictPut(a, e.config_hash, [e EXCEPT !.is_in_use = TRUE,
                                                            !.reference_count = 1,
                                                            !.last_used_at = t]),
              pool |-> PoolDel(p, e.config_hash), ret |-> e.llm, branch |-> "revive"]
    ELSE [active |-> a, pool |-> p, ret |-> None, branch |-> "miss"]

GetLlmOp(a, p, h, t) ==
    IF h \in DOMAIN a
    THEN [active |-> [a EXCEPT ![h].last_used_at = t,
                               ![h].reference_count = @ + 1],
          pool |-> p, ret |-> a[h].llm, branch |-> "hit"]
    ELSE IF InPool(p, h)
    THEN LET e == PoolGet(p, h)
         IN  [active |-> DictPut(a, h, [e EXCEPT !.is_in_use = TRUE,
                                                 !.reference_count = 1,
                                                 !.last_used_at = t]),
              pool |-> PoolDel(p, h), ret |-> e.llm, branch |-> "revive"]
    ELSE [active |-> a, pool |-> p, ret |-> None, branch |-> "miss"]

\* ReleaseLlmOp without the move to the cache pool at zero.
ReleaseLlmStaysActive(a, p, h) ==
    IF h \notin DOMAIN a
    THEN [active |-> a, pool |-> p, ret |-> None, branch |-> "unknown"]
    ELSE LET rc == a[h].reference_count - 1
         IN  IF rc <= 0
             THEN [active |-> [a EXCEPT ![h].reference_count = 0,
                                        ![h].is_in_use = FALSE],
                   pool |-> p, ret |-> None, branch |-> "to_pool"]
             ELSE [active |-> [a EXCEPT ![h].reference_count = rc],
                   pool |-> p, ret |-> None, branch |-> "decrement"]

\* ReleaseLlmOp that treats a fingerprint found idle in the cache pool as a
\* release too: it drops the idle entry from the pool.
ReleaseLlmTouchesIdle(a, p, h) ==
    IF h \notin DOMAIN a
    THEN [active |-> a,
          pool |-> IF InPool(p, h) THEN PoolDel(p, h) ELSE p,
          ret |-> None, branch |-> "unknown"]
    ELSE LET rc == a[h].reference_count - 1
         IN  IF rc <= 0
             THEN [active |-> DictDel(a, h),
                   pool |-> PoolSet(p, h, [a[h] EXCEPT !.is_in_use = FALSE,
                                                       !.reference_count = 0]),
                   ret |-> None, branch |-> "to_pool"]
             ELSE [active |-> [a EXCEPT ![h].reference_count = rc],
                   pool |-> p, ret |-> None, branch |-> "decrement"]

ReleaseLlmOp(a, p, h) ==
    IF h \notin DOMAIN a
    THEN [active |-> a, pool |-> p, ret |-> None, branch |-> "unknown"]
    ELSE LET rc == a[h].reference_count - 1
         IN  IF rc <= 0
             THEN [active |-> DictDel(a, h),
                   pool |-> PoolSet(p, h, [a[h] EXCEPT !.is_in_use = FALSE,
                                                       !.reference_count = 0]),
                   ret |-> None, branch |-> "to_pool"]
             ELSE [active |-> [a EXCEPT ![h].reference_count = rc],
                   pool |-> p, ret |-> None, branch |-> "decrement"]

\* cleanup_unused, the part under the lock; ct is current_time, read before
\* the lock is taken.
\* Expired with >= for >.
ExpiredAtTtl(e, ct) == ct - e.last_used_at >= CacheTtl

\* Expired that finds no entry too old.
ExpiredNever(e, ct) == FALSE

Expired(e, ct) == ct - e.last_used_at > CacheTtl

AfterTtl(p, ct) == SelectSeq(p, LAMBDA e : ~Expired(e, ct))

\* sorted(items, key=last_used_at) is stable: position of item i of q.
\* SortRank in descending order (newest first).
SortRankNewestFirst(q, i) ==
    Cardinality({j \in 1..Len(q) :
                    \/ q[j].last_used_at > q[i].last_used_at
                    \/ (q[j].last_used_at = q[i].last_used_at /\ j < i)}) + 1

SortRank(q, i) ==
    Cardinality({j \in 1..Len(q) :
                    \/ q[j].last_used_at < q[i].last_used_at
                    \/ (q[j].last_used_at = q[i].last_used_at /\ j < i)}) + 1

AfterLru(q) ==
    IF Len(q) > MaxCacheSize
    THEN LET excess == Len(q) - MaxCacheSize
             gone == {q[i].config_hash : i \in {j \in 1..Len(q) : SortRank(q, j) <= excess}}
         IN  SelectSeq(q, LAMBDA e : e.config_hash \notin gone)
    ELSE q

CleanupOp(p, ct) == AfterLru(AfterTtl(p, ct))

\* ------------------------------------------------------------------- state
VARIABLES
    active,        \* LLMManager._active_entries: config_hash -> LLMEntry
    pool,          \* LLMManager._cache_pool, in insertion order
    now,           \* time.time()
    cleanupTime,   \* current_time of a cleanup pass under way, else -1
    last,          \* the last direct call of a manager method (SpecMgr): method, key, branch taken
    pc,            \* per caller: its place in create_service
    thHash,        \* per caller: config_hash of the create_service under way
    thLlm,         \* per caller: the llm local of create_llm / create_service
    handle,        \* per caller: its OpenAIService, when it holds one
    registered,    \* AgentManager._registered_agents, in insertion order
    nameToIds,     \* AgentManager._name_to_ids: name -> set of agent ids
    autoRegister,  \* AgentManager._auto_register
    regLast,       \* the last completed call of a registry method (SpecReg)
    cPc,           \* per caller: its place in a registry method (SpecConc)
    cCall,         \* per caller: the registry call under way, its locals
    regLock,       \* owner of AgentManager._lock, 0 when free
    poolLock,      \* owner of LLMManager._lock, 0 when free
    poolJob,       \* the manager call the pool caller has under way
    stopCleanup,   \* LLMManager._stop_cleanup: the event is set (SpecLife)
    reaperPc,      \* the reaper thread's place in _cleanup_loop
    afterStop,     \* ghost: cleanup passes begun after the event was set
    singleton      \* LLMManager._instance, _llm_manager and what __init__ has done

llmVars == <<active, pool, now, cleanupTime, last, pc, thHash, thLlm, handle>>
lifeVars == <<stopCleanup, reaperPc, afterStop, singleton>>
concVars == <<cPc, cCall, regLock, poolLock, poolJob, lifeVars>>
regVars == <<registered, nameToIds, autoRegister, regLast, concVars>>
vars == <<llmVars, regVars>>
callerVars == <<pc, thHash, thLlm, handle>>

NoRegCall == [op |-> "none", branch |-> "none", outcome |-> "none"]

\* A caller with no registry call under way, and one that has completed none.
NoConcCall ==
    [op |-> "none", name |-> "none", config |-> <<>>, func |-> "None",
     agent_id |-> <<>>, branch |-> "none", factory |-> "none"]
NoJob == [op |-> "none", hash |-> <<>>]

NoCall == [op |-> "none", hash |-> <<>>, branch |-> "none"]
Call(op, h, r) == [op |-> op, hash |-> h, branch |-> r.branch]

\* The class attribute LLMManager._instance (instance), the module global
\* _llm_manager (global), the instance's _initialized attribute ("absent"
\* until __new__ sets it) and _cleanup_thread; inits counts the runs of
\* __init__'s body, reapers the cleanup threads started.
NoLLMManager ==
    [instance |-> FALSE, global |-> FALSE, initialized |-> "absent",
     cleanup_thread |-> "absent", inits |-> 0, reapers |-> 0]

\* After get_llm_manager() has returned for the first time.
LLMManagerUp ==
    [instance |-> TRUE, global |-> TRUE, initialized |-> "True",
     cleanup_thread |-> "alive", inits |-> 1, reapers |-> 1]

InitState ==
    /\ active = EmptyDict
    /\ pool = <<>>
    /\ now = 0
    /\ cleanupTime = -1
    /\ last = NoCall
    /\ pc = [t \in Threads |-> "idle"]
    /\ thHash = [t \in Threads |-> <<>>]
    /\ thLlm = [t \in Threads |-> None]
    /\ handle = EmptyDict
    /\ registered = <<>>
    /\ nameToIds = EmptyDict
    /\ autoRegister = TRUE
    /\ regLast = NoRegCall
    /\ cPc = [t \in Threads |-> "idle"]
    /\ cCall = [t \in Threads |-> NoConcCall]
    /\ regLock = 0
    /\ poolLock = 0
    /\ poolJob = NoJob
    /\ stopCleanup = FALSE
    /\ reaperPc = "wait"
    /\ afterStop = 0

Init == InitState /\ singleton = LLMManagerUp

\* The program before anything has asked for the LLM manager.
InitBoot == InitState /\ singleton = NoLLMManager

RefOf(h) == IF h \in DOMAIN active THEN active[h].reference_count ELSE 0

AllEntries == {active[h] : h \in DOMAIN active} \cup {pool[i] : i \in 1..Len(pool)}

\* The LLM instances something refers to: an entry, a caller's local, a
\* service.  The constructor returns an object that is none of these; as in
\* CPython, the identity of an object nothing refers to can be used again, and
\* the model names the new object with the least number no live instance of
\* its fingerprint has.
LiveLlms ==
    {e.llm : e \in AllEntries}
        \cup {thLlm[t] : t \in Threads}
        \cup {handle[t].llm : t \in DOMAIN handle}

LeastUnused(S) ==
    CHOOSE i \in 1..(Cardinality(S) + 1) : i \notin S /\ \A j \in 1..(i - 1) : j \in S

NewLlmAmong(live, h) ==
    <<h, LeastUnused({x[2] : x \in {y \in live : y # None /\ y[1] = h}})>>

NewLlm(h) == NewLlmAmong(LiveLlms, h)

\* ------------------------------------------------------- clock and reaper
Tick ==
    /\ now < MaxTime
    /\ now' = now + 1
    /\ UNCHANGED <<regVars, active, pool, cleanupTime, last, callerVars>>

\* The reaper thread (_cleanup_loop) calls cleanup_unused.
\* cleanup_unused line 193: current_time = time.time(), outside the lock.
ReaperRead ==
    /\ cleanupTime = -1
    /\ cleanupTime' = now
    /\ UNCHANGED <<regVars, active, pool, now, last, callerVars>>

\* cleanup_unused lines 196-215, under the lock.
ReaperScan ==
    /\ cleanupTime # -1
    /\ pool' = CleanupOp(pool, cleanupTime)
    /\ cleanupTime' = -1
    /\ UNCHANGED <<regVars, active, now, last, callerVars>>

\* ------------------------------------------------ callers: create_service
\* The callers inside create_service for h.
InFlight(h) == {t \in Threads : pc[t] # "idle" /\ thHash[t] = h}

\* create_service -> create_llm lines 44-51: hash the config, get_llm.
\* (default_config is {} for the module's factory, so merged_config is the
\* config.)  A caller holds one service at a time: it drops the one it has
\* (HandleDel) before it asks for another; MaxRef caps the counts.
CreateLlmLookup(t, c) ==
    LET h == ComputeConfigHash(c)
        r == GetLlmOp(active, pool, h, now)
    IN  /\ pc[t] = "idle"
        /\ t \notin DOMAIN handle
        /\ RefOf(h) + 2 <= MaxRef
        /\ active' = r.active
        /\ pool' = r.pool
        /\ thHash' = [thHash EXCEPT ![t] = h]
        /\ thLlm' = [thLlm EXCEPT ![t] = r.ret]
        /\ pc' = [pc EXCEPT ![t] = IF r.ret # None THEN "init" ELSE "construct"]
        /\ UNCHANGED <<regVars, now, cleanupTime, last, handle>>

\* create_llm lines 53-75: ChatOpenAI(...), outside any lock.
ConstructOk(t) ==
    /\ pc[t] = "construct"
    /\ thLlm' = [thLlm EXCEPT ![t] = NewLlm(thHash[t])]
    /\ pc' = [pc EXCEPT ![t] = "register"]
    /\ UNCHANGED <<regVars, active, pool, now, cleanupTime, last, thHash, handle>>

\* create_llm when ChatOpenAI(...) raises (lines 68-75 stand in no try block):
\* the constructor's exception leaves create_llm and create_service as it is;
\* register_llm is not reached.  pydantic raises ValidationError for a bad
\* argument, openai raises OpenAIError when no api_key is found.
ConstructorRaises == {"ValidationError", "OpenAIError"}

CreateLlmRaises(a, p, exc) ==
    [active |-> a, pool |-> p, ret |-> None, branch |-> "raise",
     error |-> [type |-> exc, cause |-> "none"]]

\* The constructor raises: the exception leaves create_service.
ConstructFail(t) ==
    /\ pc[t] = "construct"
    /\ pc' = [pc EXCEPT ![t] = "idle"]
    /\ thHash' = [thHash EXCEPT ![t] = <<>>]
    /\ thLlm' = [thLlm EXCEPT ![t] = None]
    /\ UNCHANGED <<regVars, active, pool, now, cleanupTime, last, handle>>

\* create_llm lines 77-80: register_llm(llm, merged_config).
CreateLlmRegister(t) ==
    LET r == RegisterLlmOp(active, pool, thLlm[t], thHash[t], now)
    IN  /\ pc[t] = "register"
        /\ active' = r.active
        /\ pool' = r.pool
        /\ thLlm' = [thLlm EXCEPT ![t] = r.ret]
        /\ pc' = [pc EXCEPT ![t] = "init"]
        /\ UNCHANGED <<regVars, now, cleanupTime, last, thHash, handle>>

\* OpenAIService.__init__: llm is not None, so _llm = manager.get_llm(hash).
NewService(a, p, h, llm, t) ==
    LET r == IF llm # None THEN GetLlmOp(a, p, h, t)
             ELSE [active |-> a, pool |-> p, ret |-> None, branch |-> "none"]
    IN  [active |-> r.active, pool |-> r.pool, branch |-> r.branch, ret |-> r.ret,
         service |-> [config_hash |-> h, llm |-> r.ret, released |-> FALSE,
                      release_calls |-> 0, decrements |-> 0]]

\* create_service line 105.
ServiceInit(t) ==
    LET r == NewService(active, pool, thHash[t], thLlm[t], now)
    IN  /\ pc[t] = "init"
        /\ active' = r.active
        /\ pool' = r.pool
        /\ handle' = DictPut(handle, t, r.service)
        /\ pc' = [pc EXCEPT ![t] = "idle"]
        /\ thHash' = [thHash EXCEPT ![t] = <<>>]
        /\ thLlm' = [thLlm EXCEPT ![t] = None]
        /\ UNCHANGED <<regVars, now, cleanupTime, last>>

\* ------------------------------------------------- callers: OpenAIService
\* A handle belongs to one caller, which calls its methods one at a time, so
\* each method is one step.  Each operator returns the manager's maps, the
\* service object and the value returned.

\* ServiceGetLlm that asks the manager at every call, cached LLM or not.
ServiceGetLlmNoCache(a, p, s, t) ==
    IF s.released
    THEN [active |-> a, pool |-> p, service |-> s, ret |-> None, branch |-> "none"]
    ELSE LET r == GetLlmOp(a, p, s.config_hash, t)
         IN  [active |-> r.active, pool |-> r.pool,
              service |-> [s EXCEPT !.llm = r.ret], ret |-> r.ret, branch |-> r.branch]

\* OpenAIService.get_llm
ServiceGetLlm(a, p, s, t) ==
    IF s.released
    THEN [active |-> a, pool |-> p, service |-> s, ret |-> None, branch |-> "none"]
    ELSE IF s.llm = None
    THEN LET r == GetLlmOp(a, p, s.config_hash, t)
         IN  [active |-> r.active, pool |-> r.pool,
              service |-> [s EXCEPT !.llm = r.ret], ret |-> r.ret, branch |-> r.branch]
    ELSE [active |-> a, pool |-> p, service |-> s, ret |-> s.llm, branch |-> "none"]

\* OpenAIService.invoke / batch_invoke / stream: get_llm(), ValueError on None.
ServiceInvoke(a, p, s, t) ==
    LET r == ServiceGetLlm(a, p, s, t)
    IN  [active |-> r.active, pool |-> r.pool, service |-> r.service,
         ret |-> r.ret, branch |-> r.branch,
         outcome |-> IF r.ret = None THEN "ValueError" ELSE "ok"]

\* OpenAIService.release.  Two fields of the service are ghosts:
\* release_calls counts the calls of release() (0, 1, "2 or more"),
\* decrements the calls of release_llm this service has made.
CountCall(n) == IF n < 2 THEN n + 1 ELSE n

\* ServiceRelease with the released flag forgotten (never tested, never set).
ServiceReleaseNoFlag(a, p, s) ==
    IF s.llm # None
    THEN LET r == ReleaseLlmOp(a, p, s.config_hash)
         IN  [active |-> r.active, pool |-> r.pool,
              service |-> [s EXCEPT !.release_calls = CountCall(@),
                                    !.decrements = @ + 1],
              ret |-> None, branch |-> r.branch]
    ELSE [active |-> a, pool |-> p,
          service |-> [s EXCEPT !.release_calls = CountCall(@)],
          ret |-> None, branch |-> "none"]

ServiceRelease(a, p, s) ==
    IF ~s.released /\ s.llm # None
    THEN LET r == ReleaseLlmOp(a, p, s.config_hash)
         IN  [active |-> r.active, pool |-> r.pool,
              service |-> [s EXCEPT !.released = TRUE, !.llm = None,
                                    !.release_calls = CountCall(@),
                                    !.decrements = @ + 1],
              ret |-> None, branch |-> r.branch]
    ELSE [active |-> a, pool |-> p,
          service |-> [s EXCEPT !.release_calls = CountCall(@)],
          ret |-> None, branch |-> "none"]

\* LLMServiceAbstract.__enter__: return self.
ServiceEnter(a, p, s) ==
    [active |-> a, pool |-> p, service |-> s, ret |-> s, branch |-> "none"]

\* LLMServiceAbstract.__exit__: self.release(), whatever the exception.
ServiceExit(a, p, s) == ServiceRelease(a, p, s)

\* "with service: body": __enter__, the body, then __exit__ on the normal
\* path and on the exception path alike (invoke raises ValueError when
\* get_llm returns None).
ScopeBodies == {"pass", "get_llm", "invoke"}

WithScope(a, p, s, t, body) ==
    LET e == ServiceEnter(a, p, s)
        b == IF body = "get_llm" THEN ServiceGetLlm(e.active, e.pool, e.service, t)
             ELSE IF body = "invoke" THEN ServiceInvoke(e.active, e.pool, e.service, t)
             ELSE e
        x == ServiceExit(b.active, b.pool, b.service)
    IN  [enter |-> e, body |-> b, exit |-> x]

Holds(t) == pc[t] = "idle" /\ t \in DOMAIN handle

HandleGetLlm(t) ==
    /\ Holds(t)
    /\ handle[t].llm = None /\ ~handle[t].released => RefOf(handle[t].config_hash) < MaxRef
    /\ LET r == ServiceGetLlm(active, pool, handle[t], now)
       IN  /\ active' = r.active
           /\ pool' = r.pool
           /\ handle' = [handle EXCEPT ![t] = r.service]
    /\ UNCHANGED <<regVars, now, cleanupTime, last, pc, thHash, thLlm>>

HandleInvoke(t) ==
    /\ Holds(t)
    /\ handle[t].llm = None /\ ~handle[t].released => RefOf(handle[t].config_hash) < MaxRef
    /\ LET r == ServiceInvoke(active, pool, handle[t], now)
       IN  /\ active' = r.active
           /\ pool' = r.pool
           /\ handle' = [handle EXCEPT ![t] = r.service]
    /\ UNCHANGED <<regVars, now, cleanupTime, last, pc, thHash, thLlm>>

\* release(), called explicitly or by __exit__ (service_abc.py line 81).
HandleRelease(t) ==
    /\ Holds(t)
    /\ LET r == ServiceRelease(active, pool, handle[t])
       IN  /\ active' = r.active
           /\ pool' = r.pool
           /\ handle' = [handle EXCEPT ![t] = r.service]
    /\ UNCHANGED <<regVars, now, cleanupTime, last, pc, thHash, thLlm>>

\* __del__: the caller drops its last reference; release() runs, the object
\* is gone.
HandleDel(t) ==
    /\ Holds(t)
    /\ LET r == ServiceRelease(active, pool, handle[t])
       IN  /\ active' = r.active
           /\ pool' = r.pool
           /\ handle' = DictDel(handle, t)
    /\ UNCHANGED <<regVars, now, cleanupTime, last, pc, thHash, thLlm>>

Next ==
    \/ Tick
    \/ ReaperRead
    \/ ReaperScan
    \/ \E t \in Threads, c \in Configs : CreateLlmLookup(t, c)
    \/ \E t \in Threads : ConstructOk(t)
    \/ \E t \in Threads : ConstructFail(t)
    \/ \E t \in Threads : CreateLlmRegister(t)
    \/ \E t \in Threads : ServiceInit(t)
    \/ \E t \in Threads : HandleGetLlm(t)
    \/ \E t \in Threads : HandleInvoke(t)
    \/ \E t \in Threads : HandleRelease(t)
    \/ \E t \in Threads : HandleDel(t)

Spec == Init /\ [][Next]_vars

\* ------------------------------------- the manager's methods, called directly
\* register_llm(llm, config) with a newly constructed llm, as create_llm does.
MgrRegister(c) ==
    LET h == ComputeConfigHash(c)
        r == RegisterLlmOp(active, pool, NewLlm(h), h, now)
    IN  /\ active' = r.active
        /\ pool' = r.pool
        /\ last' = Call("register_llm", h, r)
        /\ UNCHANGED <<regVars, now, cleanupTime, callerVars>>

MgrGet(h) ==
    LET r == GetLlmOp(active, pool, h, now)
    IN  /\ RefOf(h) < MaxMgrRef
        /\ active' = r.active
        /\ pool' = r.pool
        /\ last' = Call("get_llm", h, r)
        /\ UNCHANGED <<regVars, now, cleanupTime, callerVars>>

MgrRelease(h) ==
    LET r == ReleaseLlmOp(active, pool, h)
    IN  /\ active' = r.active
        /\ pool' = r.pool
        /\ last' = Call("release_llm", h, r)
        /\ UNCHANGED <<regVars, now, cleanupTime, callerVars>>

\* OpenAIFactory.create_llm run by a caller with no other call in between:
\* get_llm, and on None the constructor, then register_llm.
\* CreateLlmOp without the get_llm look-up: constructs and registers always.
CreateLlmNoLookup(a, p, fresh, config, t) ==
    RegisterLlmOp(a, p, fresh, ComputeConfigHash(config), t)

CreateLlmOp(a, p, fresh, config, t) ==
    LET h == ComputeConfigHash(config)
        g == GetLlmOp(a, p, h, t)
    IN  IF g.ret # None THEN g ELSE RegisterLlmOp(g.active, g.pool, fresh, h, t)

MgrCreateLlm(c) ==
    LET h == ComputeConfigHash(c)
        r == CreateLlmOp(active, pool, NewLlm(h), c, now)
    IN  /\ RefOf(h) < MaxMgrRef
        /\ active' = r.active
        /\ pool' = r.pool
        /\ last' = Call("create_llm", h, r)
        /\ UNCHANGED <<regVars, now, cleanupTime, callerVars>>

\* cleanup_unused called directly: the same two steps, logged.
RemovedBy(p, ct) ==
    [op |-> "cleanup_unused", hash |-> <<>>,
     branch |-> IF Len(AfterTtl(p, ct)) < Len(p)
                THEN (IF Len(CleanupOp(p, ct)) < Len(AfterTtl(p, ct)) THEN "ttl+lru" ELSE "ttl")
                ELSE (IF Len(CleanupOp(p, ct)) < Len(p) THEN "lru" ELSE "nothing")]

MgrCleanupRead ==
    /\ cleanupTime = -1
    /\ cleanupTime' = now
    /\ UNCHANGED <<regVars, active, pool, now, last, callerVars>>

MgrCleanupScan ==
    /\ cleanupTime # -1
    /\ pool' = CleanupOp(pool, cleanupTime)
    /\ cleanupTime' = -1
    /\ last' = RemovedBy(pool, cleanupTime)
    /\ UNCHANGED <<regVars, active, now, callerVars>>

NextMgr ==
    \/ Tick
    \/ MgrCleanupRead
    \/ MgrCleanupScan
    \/ \E c \in Configs : MgrCreateLlm(c)
    \/ \E c \in Configs : MgrRegister(c)
    \/ \E h \in Hashes : MgrGet(h)
    \/ \E h \in Hashes : MgrRelease(h)

SpecMgr == Init /\ [][NextMgr]_vars

\* register_llm, get_llm, release_llm and cleanup_unused over three
\* fingerprints.
NextPool ==
    \/ Tick
    \/ MgrCleanupRead
    \/ MgrCleanupScan
    \/ \E c \in PoolConfigs : MgrRegister(c)
    \/ \E h \in PoolHashes : MgrGet(h)
    \/ \E h \in PoolHashes : MgrRelease(h)

SpecPool == Init /\ [][NextPool]_vars

\* ============================================================ agent registry
\* src/src/agent/agent_manager.py.  An agent name stands for the package
\* src.agent.<name>: "example" has a module agent.py with create_agent,
\* "broken" a module agent.py without create_agent, "ghost" no module.
AgentNames == {"example", "broken", "ghost"}

ModuleOf(name) ==
    IF name = "example" THEN "ok"
    ELSE IF name = "broken" THEN "no_create_agent"
    ELSE "absent"

\* The config argument: a dict (two of them equal but for the key order), or
\* None where the method takes Optional.
AgentConfigs == { <<>>, << <<1, 1>>, <<2, 1>> >>, << <<2, 1>>, <<1, 1>> >> }

\* The config_path argument: None, a JSON file that exists, a path with no
\* file.  The callers of SpecReg pass the first two.
NoPath == "None"
ConfigPaths == {NoPath, "agent.json"}
AnyConfigPaths == ConfigPaths \cup {"missing.json"}
FileExists(path) == path = "agent.json"
FileConfig(path) == << <<2, 1>>, <<1, 1>> >>

\* The create_func argument: None or a callable.
NoFunc == "None"
CreateFuncs == {NoFunc, "func"}

\* What a factory does when called: it returns a graph or raises.
FactoryRaises == {"RuntimeError", "ImportError"}
FactoryBehaviours == {"returns"} \cup FactoryRaises

DictKeys(d) == {d[i][1] : i \in 1..Len(d)}
DictValue(d, k) == d[CHOOSE i \in 1..Len(d) : d[i][1] = k][2]

\* {**f, **c}: f's keys keep their place and take c's value where c has the
\* key; c's other items follow in c's order.
MergeDicts(f, c) ==
    [i \in 1..Len(f) |->
        IF f[i][1] \in DictKeys(c) THEN <<f[i][1], DictValue(c, f[i][1])>> ELSE f[i]]
    \o SelectSeq(c, LAMBDA it : it[1] \notin DictKeys(f))

\* register lines 118-129, create_agent_by_name lines 298-309.
LoadConfig(config, path, skip_file_load) ==
    IF path # NoPath /\ ~skip_file_load /\ FileExists(path)
    THEN MergeDicts(FileConfig(path), config)
    ELSE config

\* _compute_agent_id: md5 of "<name>:<json of sorted(config.items())>"; the
\* digest is represented by what it digests (md5 taken as collision-free; the
\* JSON text of a list starts with "[", so name and config are told apart).
ComputeAgentId(name, config) == <<name, SortedItems(config)>>

EffectiveConfigs == {LoadConfig(c, p, k) : c \in AgentConfigs, p \in AnyConfigPaths, k \in BOOLEAN}
AgentIds == {ComputeAgentId(n, c) : n \in AgentNames, c \in EffectiveConfigs}

AgentEntry(name, id, config, path, func) ==
    [name |-> name, agent_id |-> id, config |-> config,
     config_path |-> path, create_func |-> func]

IsRegistered(reg, id) == \E i \in 1..Len(reg) : reg[i].agent_id = id
EntryOf(reg, id) == reg[CHOOSE i \in 1..Len(reg) : reg[i].agent_id = id]

\* Every error the registry raises is a ValueError; msg is the message's
\* fixed part, cause the exception it was raised from (raise ... from e), name
\* the entity name in the message.
NoError == [type |-> "none", msg |-> "none", cause |-> "none", name |-> "none"]
RegistryError(msg, cause, name) ==
    [type |-> "ValueError", msg |-> msg, cause |-> cause, name |-> name]

\* RegisterOp that stores a new entry over a registered id as well.
RegisterOverwrites(reg, n2i, name, config, path, func, skip_file_load) ==
    LET cfg == LoadConfig(config, path, skip_file_load)
        id == ComputeAgentId(name, cfg)
        ids == IF name \in DOMAIN n2i THEN n2i[name] ELSE {}
    IN  [registered |-> Append(SelectSeq(reg, LAMBDA e : e.agent_id # id),
                               AgentEntry(name, id, cfg, path, func)),
         name_to_ids |-> DictPut(n2i, name, ids \cup {id}),
         ret |-> id, error |-> NoError, branch |-> "new"]

\* RegisterOp that keeps one entry per name: a new registration drops the
\* name's earlier entries.
RegisterReplacesName(reg, n2i, name, config, path, func, skip_file_load) ==
    LET cfg == LoadConfig(config, path, skip_file_load)
        id == ComputeAgentId(name, cfg)
    IN  IF IsRegistered(reg, id)
        THEN [registered |-> reg, name_to_ids |-> n2i,
              ret |-> id, error |-> NoError, branch |-> "known"]
        ELSE [registered |-> Append(SelectSeq(reg, LAMBDA e : e.name # name),
                                    AgentEntry(name, id, cfg, path, func)),
              name_to_ids |-> DictPut(n2i, name, {id}),
              ret |-> id, error |-> NoError, branch |-> "new"]

\* RegisterOp with the other duplicate policy: a registered id is an error.
RegisterRaisesOnKnown(reg, n2i, name, config, path, func, skip_file_load) ==
    LET cfg == LoadConfig(config, path, skip_file_load)
        id == ComputeAgentId(name, cfg)
        ids == IF name \in DOMAIN n2i THEN n2i[name] ELSE {}
    IN  IF IsRegistered(reg, id)
        THEN [registered |-> reg, name_to_ids |-> n2i, ret |-> None,
              error |-> RegistryError("is already registered", "none", name),
              branch |-> "known"]
        ELSE [registered |-> Append(reg, AgentEntry(name, id, cfg, path, func)),
              name_to_ids |-> DictPut(n2i, name, ids \cup {id}),
              ret |-> id, error |-> NoError, branch |-> "new"]

\* RegisterOp that stores the entry and leaves the name index alone.
RegisterSkipsNameIndex(reg, n2i, name, config, path, func, skip_file_load) ==
    LET cfg == LoadConfig(config, path, skip_file_load)
        id == ComputeAgentId(name, cfg)
    IN  IF IsRegistered(reg, id)
        THEN [registered |-> reg, name_to_ids |-> n2i,
              ret |-> id, error |-> NoError, branch |-> "known"]
        ELSE [registered |-> Append(reg, AgentEntry(name, id, cfg, path, func)),
              name_to_ids |-> n2i,
              ret |-> id, error |-> NoError, branch |-> "new"]

\* RegisterOp that files a new id as the only id of its name.
RegisterResetsNameSet(reg, n2i, name, config, path, func, skip_file_load) ==
    LET cfg == LoadConfig(config, path, skip_file_load)
        id == ComputeAgentId(name, cfg)
    IN  IF IsRegistered(reg, id)
        THEN [registered |-> reg, name_to_ids |-> n2i,
              ret |-> id, error |-> NoError, branch |-> "known"]
        ELSE [registered |-> Append(reg, AgentEntry(name, id, cfg, path, func)),
              name_to_ids |-> DictPut(n2i, name, {id}),
              ret |-> id, error |-> NoError, branch |-> "new"]

\* AgentManager.register
RegisterOp(reg, n2i, name, config, path, func, skip_file_load) ==
    LET cfg == LoadConfig(config, path, skip_file_load)
        id == ComputeAgentId(name, cfg)
        ids == IF name \in DOMAIN n2i THEN n2i[name] ELSE {}
    IN  IF IsRegistered(reg, id)
        THEN [registered |-> reg, name_to_ids |-> n2i,
              ret |-> id, error |-> NoError, branch |-> "known"]
        ELSE [registered |-> Append(reg, AgentEntry(name, id, cfg, path, func)),
              name_to_ids |-> DictPut(n2i, name, ids \cup {id}),
              ret |-> id, error |-> NoError, branch |-> "new"]

\* CreateAgentOp that lets a factory's exception through as it is.
CreateAgentRaw(reg, id, behaviour) ==
    IF ~IsRegistered(reg, id)
    THEN [ret |-> None, factory |-> "none",
          error |-> RegistryError("is not registered", "none", "none")]
    ELSE IF behaviour = "returns"
    THEN [ret |-> "graph", factory |-> "create_func", error |-> NoError]
    ELSE [ret |-> None, factory |-> "create_func",
          error |-> [type |-> behaviour, msg |-> "raw", cause |-> "none", name |-> "none"]]

\* CreateAgentOp without the membership test: an id that is not registered
\* goes on to the module factory.
CreateAgentNoCheck(reg, id, behaviour) ==
    IF behaviour = "returns"
    THEN [ret |-> "graph", factory |-> "module", error |-> NoError]
    ELSE [ret |-> None, factory |-> "module",
          error |-> RegistryError("Failed to create agent", behaviour, "none")]

\* AgentManager.create_agent.  behaviour is what the factory does if it is
\* called; factory tells which one was called.
CreateAgentOp(reg, id, behaviour) ==
    IF ~IsRegistered(reg, id)
    THEN [ret |-> None, factory |-> "none",
          error |-> RegistryError("is not registered", "none", "none")]
    ELSE LET entry == EntryOf(reg, id)
         IN  IF entry.create_func # NoFunc
             THEN IF behaviour = "returns"
                  THEN [ret |-> "graph", factory |-> "create_func", error |-> NoError]
                  ELSE [ret |-> None, factory |-> "create_func",
                        error |-> RegistryError("Failed to create agent", behaviour, entry.name)]
             ELSE IF ModuleOf(entry.name) = "absent"
             THEN [ret |-> None, factory |-> "none",
                   error |-> RegistryError("Failed to import agent module",
                                           "ImportError", entry.name)]
             ELSE IF ModuleOf(entry.name) = "no_create_agent"
             THEN [ret |-> None, factory |-> "none",
                   error |-> RegistryError("Failed to create agent", "ValueError", entry.name)]
             ELSE IF behaviour = "returns"
             THEN [ret |-> "graph", factory |-> "module", error |-> NoError]
             ELSE IF behaviour = "ImportError"
             THEN [ret |-> None, factory |-> "module",
                   error |-> RegistryError("Failed to import agent module",
                                           behaviour, entry.name)]
             ELSE [ret |-> None, factory |-> "module",
                   error |-> RegistryError("Failed to create agent", behaviour, entry.name)]

\* AgentManager.get_agent_ids_by_name: list(set).  A set of str iterates in
\* hash order, which is none the program chooses: every order is possible.
RECURSIVE Orderings(_)
Orderings(S) ==
    IF S = {} THEN {<<>>}
    ELSE UNION {{<<x>> \o rest : rest \in Orderings(S \ {x})} : x \in S}

GetAgentIdsByName(n2i, name) ==
    Orderings(IF name \in DOMAIN n2i THEN n2i[name] ELSE {})

\* AgentManager.is_registered
IsRegisteredOp(reg, id) == IsRegistered(reg, id)

\* ByNameLookupOp that auto-registers the config as it was passed, not the
\* merged one the id was computed from.
ByNameLookupRawConfig(reg, n2i, auto, name, config, path) ==
    LET given == IF config = None THEN <<>> ELSE config
        id == ComputeAgentId(name, LoadConfig(given, path, FALSE))
    IN  IF IsRegistered(reg, id)
        THEN [registered |-> reg, name_to_ids |-> n2i, ret |-> id,
              error |-> NoError, branch |-> "known"]
        ELSE IF auto
        THEN LET r == RegisterOp(reg, n2i, name, given, path, NoFunc, TRUE)
             IN  [registered |-> r.registered, name_to_ids |-> r.name_to_ids,
                  ret |-> id, error |-> NoError, branch |-> "auto"]
        ELSE [registered |-> reg, name_to_ids |-> n2i, ret |-> id,
              error |-> RegistryError("is not registered", "none", name),
              branch |-> "strict"]

\* ByNameLookupOp that does not read the auto_register flag: an unknown pair
\* is always registered.
ByNameLookupAlwaysAuto(reg, n2i, auto, name, config, path) ==
    LET merged == LoadConfig(IF config = None THEN <<>> ELSE config, path, FALSE)
        id == ComputeAgentId(name, merged)
    IN  IF IsRegistered(reg, id)
        THEN [registered |-> reg, name_to_ids |-> n2i, ret |-> id,
              error |-> NoError, branch |-> "known"]
        ELSE LET r == RegisterOp(reg, n2i, name, merged, path, NoFunc, TRUE)
             IN  [registered |-> r.registered, name_to_ids |-> r.name_to_ids,
                  ret |-> id, error |-> NoError, branch |-> "auto"]

\* create_agent_by_name lines 293-332: merge the file, compute the id, and
\* under the lock register it when auto_register is on, raise when it is off.
\* config is a dict or None.
ByNameLookupOp(reg, n2i, auto, name, config, path) ==
    LET merged == LoadConfig(IF config = None THEN <<>> ELSE config, path, FALSE)
        id == ComputeAgentId(name, merged)
    IN  IF IsRegistered(reg, id)
        THEN [registered |-> reg, name_to_ids |-> n2i, ret |-> id,
              error |-> NoError, branch |-> "known"]
        ELSE IF auto
        THEN LET r == RegisterOp(reg, n2i, name, merged, path, NoFunc, TRUE)
             IN  [registered |-> r.registered, name_to_ids |-> r.name_to_ids,
                  ret |-> id, error |-> NoError, branch |-> "auto"]
        ELSE [registered |-> reg, name_to_ids |-> n2i, ret |-> id,
              error |-> RegistryError("is not registered", "none", name),
              branch |-> "strict"]

\* create_agent_by_name run by one caller with no other call in between.
CreateAgentByNameOp(reg, n2i, auto, name, config, path, behaviour) ==
    LET l == ByNameLookupOp(reg, n2i, auto, name, config, path)
        c == CreateAgentOp(l.registered, l.ret, behaviour)
    IN  IF l.error # NoError
        THEN [registered |-> l.registered, name_to_ids |-> l.name_to_ids,
              id |-> l.ret, branch |-> l.branch,
              ret |-> None, factory |-> "none", error |-> l.error]
        ELSE [registered |-> l.registered, name_to_ids |-> l.name_to_ids,
              id |-> l.ret, branch |-> l.branch,
              ret |-> c.ret, factory |-> c.factory, error |-> c.error]

\* ---------------------------------------------------- the registry's callers
\* The log of the last call: method, the branch it took (register: "new" or
\* "known"; create_agent: the factory called; create_agent_by_name: "known",
\* "auto" or "strict"), and "ok" or the error message.
RegCall(op, branch, error) ==
    [op |-> op, branch |-> branch,
     outcome |-> IF error = NoError THEN "ok" ELSE error.msg]

\* register called with skip_file_load left at its default.
Register(name, config, path, func) ==
    LET r == RegisterOp(registered, nameToIds, name, config, path, func, FALSE)
    IN  /\ Len(r.registered) <= MaxAgents
        /\ registered' = r.registered
        /\ nameToIds' = r.name_to_ids
        /\ regLast' = RegCall("register", r.branch, r.error)
        /\ UNCHANGED <<concVars, llmVars, autoRegister>>

CreateAgent(id, behaviour) ==
    LET r == CreateAgentOp(registered, id, behaviour)
    IN  /\ regLast' = RegCall("create_agent", r.factory, r.error)
        /\ UNCHANGED <<concVars, llmVars, registered, nameToIds, autoRegister>>

\* create_agent_by_name, run to its end.
CreateAgentByName(name, config, path, behaviour) ==
    LET r == CreateAgentByNameOp(registered, nameToIds, autoRegister, name, config, path, behaviour)
    IN  /\ Len(r.registered) <= MaxAgents
        /\ registered' = r.registered
        /\ nameToIds' = r.name_to_ids
        /\ regLast' = RegCall("create_agent_by_name", r.branch, r.error)
        /\ UNCHANGED <<concVars, llmVars, autoRegister>>

EnableAutoRegister ==
    /\ autoRegister' = TRUE
    /\ regLast' = RegCall("enable_auto_register", "none", NoError)
    /\ UNCHANGED <<concVars, llmVars, registered, nameToIds>>

DisableAutoRegister ==
    /\ autoRegister' = FALSE
    /\ regLast' = RegCall("disable_auto_register", "none", NoError)
    /\ UNCHANGED <<concVars, llmVars, registered, nameToIds>>

\* ------------------------------------------ AgentManager: the singleton
\* The class attribute _instance, the module global _agent_manager and the
\* instance's attributes as one record.  An attribute that may be missing is
\* a set of at most one value.
NoManager ==
    [instance |-> FALSE, global |-> FALSE, initialized |-> FALSE, pending |-> {},
     auto_register |-> {}, registered |-> <<>>, name_to_ids |-> EmptyDict]

\* AgentManager.__new__
AgentManagerNew(m, auto_register) ==
    IF ~m.instance
    THEN [m EXCEPT !.instance = TRUE, !.initialized = FALSE,
                   !.pending = {auto_register}]
    ELSE m

\* AgentManagerInit without the _initialized test.
AgentManagerInitAgain(m, auto_register) ==
    [m EXCEPT !.registered = <<>>,
              !.name_to_ids = EmptyDict,
              !.auto_register = IF m.pending # {} THEN m.pending ELSE {auto_register},
              !.pending = {},
              !.initialized = TRUE]

\* AgentManager.__init__
AgentManagerInit(m, auto_register) ==
    IF m.initialized
    THEN m
    ELSE [m EXCEPT !.registered = <<>>,
                   !.name_to_ids = EmptyDict,
                   !.auto_register = IF m.pending # {} THEN m.pending
                                     ELSE {auto_register},
                   !.pending = {},
                   !.initialized = TRUE]

\* AgentManager(auto_register=x): __new__, then __init__ on what it returned.
AgentManagerCall(m, auto_register) ==
    AgentManagerInit(AgentManagerNew(m, auto_register), auto_register)

\* get_agent_manager(auto_register)
GetAgentManagerOp(m, auto_register) ==
    IF ~m.global
    THEN [AgentManagerCall(m, auto_register) EXCEPT !.global = TRUE]
    ELSE m

\* The manager of the current state; g tells whether get_agent_manager has
\* been called before (src/agents.py calls it at import).
ManagerObject(g) ==
    [instance |-> TRUE, global |-> g, initialized |-> TRUE, pending |-> {},
     auto_register |-> {autoRegister}, registered |-> registered,
     name_to_ids |-> nameToIds]

ArgText(x) == IF x THEN "auto_register=True" ELSE "auto_register=False"

\* AgentManager(auto_register=x) called again by the program.
NewAgentManager(x) ==
    LET m == AgentManagerCall(ManagerObject(TRUE), x)
    IN  /\ registered' = m.registered
        /\ nameToIds' = m.name_to_ids
        /\ autoRegister' \in m.auto_register
        /\ regLast' = RegCall("AgentManager", ArgText(x), NoError)
        /\ UNCHANGED <<concVars, llmVars>>

\* get_agent_manager(x) called again by the program.
GetAgentManager(x) ==
    LET m == GetAgentManagerOp(ManagerObject(TRUE), x)
    IN  /\ registered' = m.registered
        /\ nameToIds' = m.name_to_ids
        /\ autoRegister' \in m.auto_register
        /\ regLast' = RegCall("get_agent_manager", ArgText(x), NoError)
        /\ UNCHANGED <<concVars, llmVars>>

NextReg ==
    \/ \E n \in AgentNames, c \in AgentConfigs, p \in ConfigPaths,
          f \in CreateFuncs : Register(n, c, p, f)
    \/ \E id \in AgentIds, b \in FactoryBehaviours : CreateAgent(id, b)
    \/ \E n \in AgentNames, c \in AgentConfigs \cup {None}, p \in ConfigPaths,
          b \in FactoryBehaviours : CreateAgentByName(n, c, p, b)
    \/ EnableAutoRegister
    \/ DisableAutoRegister
    \/ \E x \in BOOLEAN : NewAgentManager(x)
    \/ \E x \in BOOLEAN : GetAgentManager(x)

SpecReg == Init /\ [][NextReg]_vars

\* ------------------------------------------ the registry and the pool, threads
\* SpecConc: callers run registry methods step by step.  A step is what a
\* thread does between two points where it may have to wait for a lock or
\* where another thread may run to an effect: the code before a "with
\* self._lock", a locked block, a factory (called inside create_agent's
\* locked block) and the manager call a factory makes.  Beside the callers a
\* pool caller calls the LLM manager's methods and the reaper runs
\* cleanup_unused.  Threads are numbered: callers 1..NumThreads, then the
\* pool caller, then the reaper; a lock holds its owner's number, 0 when free.
PoolCaller == NumThreads + 1
Reaper == NumThreads + 2

\* The calls of SpecConc: two names (one with a module, one without), the
\* empty configuration, no config file; factories and the pool caller use
\* one fingerprint.
ConcNames == {"example", "ghost"}
ConcConfigs == {<<>>}
ConcHash == ComputeConfigHash(<< <<1, 1>> >>)
PoolOps == {"get_llm", "register_llm", "release_llm"}

\* The locks a method of LLMManager takes: its own (manager.py imports
\* nothing of the agent package).
PoolOpNeedsRegistry(op) == {"pool", "registry"}

PoolOpNeeds(op) == {"pool"}

\* Registrations that calls under way may still add.
PendingRegistrations ==
    Cardinality({t \in Threads : cPc[t] \in {"by_name_block", "register_block"}})

RoomFor(id) ==
    IsRegistered(registered, id) \/ Len(registered) + PendingRegistrations < MaxAgents

ConcCall(op, name, config, func, id) ==
    [op |-> op, name |-> name, config |-> config, func |-> func,
     agent_id |-> id, branch |-> "none", factory |-> "none"]

\* create_agent_by_name lines 293-312: the merge and the id, before the lock.
ByNameStart(t, name, config) ==
    LET merged == LoadConfig(IF config = None THEN <<>> ELSE config, NoPath, FALSE)
        id == ComputeAgentId(name, merged)
    IN  /\ cPc[t] = "idle"
        /\ RoomFor(id)
        /\ cCall' = [cCall EXCEPT ![t] =
                        ConcCall("create_agent_by_name", name, merged, NoFunc, id)]
        /\ cPc' = [cPc EXCEPT ![t] = "by_name_block"]
        /\ UNCHANGED <<lifeVars, llmVars, registered, nameToIds, autoRegister, regLast,
                       regLock, poolLock, poolJob>>

\* create_agent_by_name lines 314-332: the locked block (register takes the
\* RLock again inside it).  The strict-mode error ends the call.
ByNameBlock(t) ==
    LET c == cCall[t]
        l == ByNameLookupOp(registered, nameToIds, autoRegister, c.name, c.config, NoPath)
    IN  /\ cPc[t] = "by_name_block"
        /\ regLock = 0
        /\ registered' = l.registered
        /\ nameToIds' = l.name_to_ids
        /\ IF l.error # NoError
           THEN /\ cPc' = [cPc EXCEPT ![t] = "idle"]
                /\ cCall' = [cCall EXCEPT ![t] = NoConcCall]
           ELSE /\ cPc' = [cPc EXCEPT ![t] = "create_agent"]
                /\ cCall' = [cCall EXCEPT ![t].branch = l.branch]
        /\ UNCHANGED <<lifeVars, llmVars, autoRegister, regLast, regLock, poolLock, poolJob>>

\* create_agent(agent_id) called directly.
CreateAgentStart(t, id) ==
    /\ cPc[t] = "idle"
    /\ cCall' = [cCall EXCEPT ![t] = ConcCall("create_agent", "none", <<>>, NoFunc, id)]
    /\ cPc' = [cPc EXCEPT ![t] = "create_agent"]
    /\ UNCHANGED <<lifeVars, llmVars, registered, nameToIds, autoRegister, regLast,
                   regLock, poolLock, poolJob>>

\* create_agent lines 179-211: take the lock, look the entry up, find the
\* factory.  The call ends here when there is none to call; otherwise the
\* factory runs next, with the lock held.
CreateAgentEnter(t) ==
    LET c == cCall[t]
        r == CreateAgentOp(registered, c.agent_id, "returns")
    IN  /\ cPc[t] = "create_agent"
        /\ regLock = 0
        /\ IF r.factory = "none"
           THEN /\ cPc' = [cPc EXCEPT ![t] = "idle"]
                /\ cCall' = [cCall EXCEPT ![t] = NoConcCall]
                /\ regLock' = 0
           ELSE /\ cPc' = [cPc EXCEPT ![t] = "factory"]
                /\ cCall' = [cCall EXCEPT ![t].factory = r.factory]
                /\ regLock' = t
        /\ UNCHANGED <<lifeVars, llmVars, registered, nameToIds, autoRegister, regLast,
                       poolLock, poolJob>>

\* A factory that acquires from the pool (create_service -> get_llm): it
\* comes to the manager call ...
FactoryWantsPool(t) ==
    /\ cPc[t] = "factory"
    /\ RefOf(ConcHash) + (IF poolJob.op = "get_llm" THEN 1 ELSE 0) < MaxMgrRef
    /\ cPc' = [cPc EXCEPT ![t] = "factory_wait"]
    /\ UNCHANGED <<lifeVars, llmVars, registered, nameToIds, autoRegister, regLast,
                   cCall, regLock, poolLock, poolJob>>

\* ... takes the manager's lock (get_llm line 152) ...
FactoryPoolLock(t) ==
    /\ cPc[t] = "factory_wait"
    /\ poolLock = 0
    /\ poolLock' = t
    /\ cPc' = [cPc EXCEPT ![t] = "factory_pool"]
    /\ UNCHANGED <<lifeVars, llmVars, registered, nameToIds, autoRegister, regLast,
                   cCall, regLock, poolJob>>

\* ... and get_llm runs and gives the lock back (lines 153-169).
FactoryPoolOp(t) ==
    LET r == GetLlmOp(active, pool, ConcHash, now)
    IN  /\ cPc[t] = "factory_pool"
        /\ poolLock = t
        /\ active' = r.active
        /\ pool' = r.pool
        /\ poolLock' = 0
        /\ cPc' = [cPc EXCEPT ![t] = "factory_done"]
        /\ UNCHANGED <<lifeVars, now, cleanupTime, last, callerVars, registered, nameToIds,
                       autoRegister, regLast, cCall, regLock, poolJob>>

\* The factory returns or raises; create_agent returns the graph or raises
\* the wrapped error, leaving the locked block (lines 187-233).
FactoryEnd(t, behaviour) ==
    LET c == cCall[t]
        r == CreateAgentOp(registered, c.agent_id, behaviour)
    IN  /\ cPc[t] \in {"factory", "factory_done"}
        /\ regLock = t
        /\ regLock' = 0
        /\ cPc' = [cPc EXCEPT ![t] = "idle"]
        /\ cCall' = [cCall EXCEPT ![t] = NoConcCall]
        /\ UNCHANGED <<lifeVars, llmVars, registered, nameToIds, autoRegister, regLast,
                       poolLock, poolJob>>

\* register lines 118-131: the id, before the lock.
RegisterStart(t, name, config, func) ==
    LET cfg == LoadConfig(config, NoPath, FALSE)
        id == ComputeAgentId(name, cfg)
    IN  /\ cPc[t] = "idle"
        /\ RoomFor(id)
        /\ cCall' = [cCall EXCEPT ![t] = ConcCall("register", name, cfg, func, id)]
        /\ cPc' = [cPc EXCEPT ![t] = "register_block"]
        /\ UNCHANGED <<lifeVars, llmVars, registered, nameToIds, autoRegister, regLast,
                       regLock, poolLock, poolJob>>

\* register lines 133-166: the locked block.
RegisterBlock(t) ==
    LET c == cCall[t]
        r == RegisterOp(registered, nameToIds, c.name, c.config, NoPath, c.func, FALSE)
    IN  /\ cPc[t] = "register_block"
        /\ regLock = 0
        /\ registered' = r.registered
        /\ nameToIds' = r.name_to_ids
        /\ cPc' = [cPc EXCEPT ![t] = "idle"]
        /\ cCall' = [cCall EXCEPT ![t] = NoConcCall]
        /\ UNCHANGED <<lifeVars, llmVars, autoRegister, regLast, regLock, poolLock, poolJob>>

\* enable_auto_register / disable_auto_register: one locked assignment.
SetAutoRegister(v) ==
    /\ regLock = 0
    /\ autoRegister # v
    /\ autoRegister' = v
    /\ UNCHANGED <<llmVars, registered, nameToIds, regLast, concVars>>

\* The pool caller takes the manager's lock for a call ...
PoolCallerLock(op, h) ==
    /\ poolJob = NoJob
    /\ poolLock = 0
    /\ op = "get_llm" =>
          RefOf(h) + (IF \E t \in Threads : cPc[t] \in {"factory_wait", "factory_pool"}
                      THEN 1 ELSE 0) < MaxMgrRef
    /\ poolLock' = PoolCaller
    /\ poolJob' = [op |-> op, hash |-> h]
    /\ UNCHANGED <<lifeVars, llmVars, registered, nameToIds, autoRegister, regLast,
                   cPc, cCall, regLock>>

\* ... and the call runs and gives the lock back.
PoolCallerOp ==
    LET h == poolJob.hash
        r == IF poolJob.op = "get_llm" THEN GetLlmOp(active, pool, h, now)
             ELSE IF poolJob.op = "register_llm"
             THEN RegisterLlmOp(active, pool, NewLlm(h), h, now)
             ELSE ReleaseLlmOp(active, pool, h)
    IN  /\ poolJob # NoJob
        /\ poolLock = PoolCaller
        /\ "registry" \in PoolOpNeeds(poolJob.op) => regLock = 0
        /\ active' = r.active
        /\ pool' = r.pool
        /\ poolLock' = 0
        /\ poolJob' = NoJob
        /\ UNCHANGED <<lifeVars, now, cleanupTime, last, callerVars, registered, nameToIds,
                       autoRegister, regLast, cPc, cCall, regLock>>

\* cleanup_unused: current_time is read, the lock taken (lines 193-196) ...
ConcReaperLock ==
    /\ cleanupTime = -1
    /\ poolLock = 0
    /\ cleanupTime' = now
    /\ poolLock' = Reaper
    /\ UNCHANGED <<lifeVars, active, pool, now, last, callerVars, registered, nameToIds,
                   autoRegister, regLast, cPc, cCall, regLock, poolJob>>

\* ... and the scan runs and gives the lock back (lines 197-215).
ConcReaperScan ==
    /\ poolLock = Reaper
    /\ pool' = CleanupOp(pool, cleanupTime)
    /\ cleanupTime' = -1
    /\ poolLock' = 0
    /\ UNCHANGED <<lifeVars, active, now, last, callerVars, registered, nameToIds,
                   autoRegister, regLast, cPc, cCall, regLock, poolJob>>

\* What thread x can do next once it is inside a call.
CallerStep(t) ==
    \/ ByNameBlock(t)
    \/ CreateAgentEnter(t)
    \/ FactoryWantsPool(t)
    \/ FactoryPoolLock(t)
    \/ FactoryPoolOp(t)
    \/ \E b \in FactoryBehaviours : FactoryEnd(t, b)
    \/ RegisterBlock(t)

StepOf(x) ==
    IF x \in Threads THEN CallerStep(x)
    ELSE IF x = PoolCaller THEN PoolCallerOp
    ELSE ConcReaperScan

NextConc ==
    \/ \E t \in Threads, n \in ConcNames, c \in ConcConfigs \cup {None} :
          ByNameStart(t, n, c)
    \/ \E t \in Threads : ByNameBlock(t)
    \/ \E t \in Threads, n \in ConcNames, c \in ConcConfigs :
          CreateAgentStart(t, ComputeAgentId(n, c))
    \/ \E t \in Threads : CreateAgentEnter(t)
    \/ \E t \in Threads : FactoryWantsPool(t)
    \/ \E t \in Threads : FactoryPoolLock(t)
    \/ \E t \in Threads : FactoryPoolOp(t)
    \/ \E t \in Threads, b \in FactoryBehaviours : FactoryEnd(t, b)
    \/ \E t \in Threads, n \in ConcNames, c \in ConcConfigs, f \in CreateFuncs :
          RegisterStart(t, n, c, f)
    \/ \E t \in Threads : RegisterBlock(t)
    \/ \E v \in BOOLEAN : SetAutoRegister(v)
    \/ \E op \in PoolOps : PoolCallerLock(op, ConcHash)
    \/ PoolCallerOp
    \/ ConcReaperLock
    \/ ConcReaperScan

SpecConc == Init /\ [][NextConc]_vars

\* --------------------------------------------- the reaper thread's life
\* SpecLife: the manager's methods called directly while the reaper thread
\* runs _cleanup_loop and shutdown() may be called.
\* _cleanup_loop line 89, "while not self._stop_cleanup.wait(interval)":
\* wait returns the event's flag, so the loop goes on while it is not set.
\* LoopContinues that does not look at the event.
LoopIgnoresStop(stop) == TRUE

LoopContinues(stop) == ~stop

\* wait(interval) times out with the event not set: the body is next.
ReaperWake ==
    /\ reaperPc = "wait"
    /\ LoopContinues(stopCleanup)
    /\ reaperPc' = "pass"
    /\ UNCHANGED <<llmVars, registered, nameToIds, autoRegister, regLast,
                   cPc, cCall, regLock, poolLock, poolJob, singleton, stopCleanup, afterStop>>

\* wait returns True: the loop and the thread end.
ReaperExit ==
    /\ reaperPc = "wait"
    /\ ~LoopContinues(stopCleanup)
    /\ reaperPc' = "exited"
    /\ UNCHANGED <<llmVars, registered, nameToIds, autoRegister, regLast,
                   cPc, cCall, regLock, poolLock, poolJob, singleton, stopCleanup, afterStop>>

\* afterStop counts the passes that run after the event was set: a pass
\* under way when shutdown sets it, a pass begun later.
CountPass(n) == IF n < MaxPassesCounted THEN n + 1 ELSE n

\* cleanup_unused line 193, called from the loop.
LifeCleanupRead ==
    /\ reaperPc = "pass"
    /\ cleanupTime' = now
    /\ reaperPc' = "scan"
    /\ afterStop' = IF stopCleanup THEN CountPass(afterStop) ELSE afterStop
    /\ UNCHANGED <<active, pool, now, last, callerVars, registered, nameToIds,
                   autoRegister, regLast, cPc, cCall, regLock, poolLock, poolJob, singleton,
                   stopCleanup>>

\* cleanup_unused lines 196-215, then back to the loop's wait.
LifeCleanupScan ==
    /\ reaperPc = "scan"
    /\ pool' = CleanupOp(pool, cleanupTime)
    /\ cleanupTime' = -1
    /\ reaperPc' = "wait"
    /\ UNCHANGED <<active, now, last, callerVars, registered, nameToIds,
                   autoRegister, regLast, cPc, cCall, regLock, poolLock, poolJob, singleton,
                   stopCleanup, afterStop>>

\* shutdown: set the event; join(timeout=5.0) waits for the thread at most
\* five seconds and changes nothing.
Shutdown ==
    /\ ~stopCleanup
    /\ stopCleanup' = TRUE
    /\ afterStop' = IF reaperPc = "scan" THEN CountPass(afterStop) ELSE afterStop
    /\ UNCHANGED <<llmVars, registered, nameToIds, autoRegister, regLast,
                   cPc, cCall, regLock, poolLock, poolJob, singleton, reaperPc>>

ReaperStep == ReaperWake \/ ReaperExit \/ LifeCleanupRead \/ LifeCleanupScan

NextLife ==
    \/ Tick
    \/ ReaperWake
    \/ ReaperExit
    \/ LifeCleanupRead
    \/ LifeCleanupScan
    \/ Shutdown
    \/ \E c \in Configs : MgrRegister(c)
    \/ \E h \in Hashes : MgrGet(h)
    \/ \E h \in Hashes : MgrRelease(h)

\* The reaper is a thread of its own: the scheduler runs it, wait(interval)
\* returns after the interval at the latest, and the manager's lock is
\* free between two calls.
SpecLife == Init /\ [][NextLife]_vars /\ WF_vars(ReaperStep)

\* ------------------------------------------- LLMManager: first construction
\* Callers that ask for the manager at the same time, each at its own place
\* in get_llm_manager -> LLMManager() -> __new__, __init__.  What these
\* steps leave alone:
bootFrame ==
    <<now, cleanupTime, last, thHash, thLlm, handle, registered, nameToIds,
      autoRegister, regLast, cPc, cCall, regLock, poolLock, poolJob,
      stopCleanup, reaperPc, afterStop>>

\* get_llm_manager line 250: if _llm_manager is None (no lock).
GetLlmManagerCheck(t) ==
    /\ pc[t] = "idle"
    /\ pc' = [pc EXCEPT ![t] = IF singleton.global THEN "ready" ELSE "new"]
    /\ UNCHANGED <<bootFrame, active, pool, singleton>>

\* __new__ line 34: if cls._instance is None (no lock).
LLMManagerNewCheck(t) ==
    /\ pc[t] = "new"
    /\ pc' = [pc EXCEPT ![t] = IF singleton.instance THEN "init_check" ELSE "new_lock"]
    /\ UNCHANGED <<bootFrame, active, pool, singleton>>

\* __new__ lines 35-37: the class lock (held by the caller at "new_mark"),
\* the second test, the new object.
LLMManagerNewCreate(t) ==
    /\ pc[t] = "new_lock"
    /\ \A u \in Threads : pc[u] # "new_mark"
    /\ IF singleton.instance
       THEN /\ pc' = [pc EXCEPT ![t] = "init_check"]
            /\ UNCHANGED singleton
       ELSE /\ pc' = [pc EXCEPT ![t] = "new_mark"]
            /\ singleton' = [singleton EXCEPT !.instance = TRUE]
    /\ UNCHANGED <<bootFrame, active, pool>>

\* __new__ line 38: cls._instance._initialized = False; the lock is released.
LLMManagerNewMark(t) ==
    /\ pc[t] = "new_mark"
    /\ singleton' = [singleton EXCEPT !.initialized = "False"]
    /\ pc' = [pc EXCEPT ![t] = "init_check"]
    /\ UNCHANGED <<bootFrame, active, pool>>

\* __init__ lines 54-55: if self._initialized: return (no lock).  A caller
\* that got the object before line 38 ran finds no such attribute:
\* AttributeError leaves the call.
LLMManagerInitCheck(t) ==
    /\ pc[t] = "init_check"
    /\ pc' = [pc EXCEPT ![t] = IF singleton.initialized = "absent" THEN "idle"
                               ELSE IF singleton.initialized = "True" THEN "assign"
                               ELSE "init_maps"]
    /\ UNCHANGED <<bootFrame, active, pool, singleton>>

\* __init__ lines 57-71: new dicts, a new RLock, _initialized = True.
LLMManagerInitMaps(t) ==
    /\ pc[t] = "init_maps"
    /\ active' = EmptyDict
    /\ pool' = <<>>
    /\ singleton' = [singleton EXCEPT !.initialized = "True", !.inits = @ + 1]
    /\ pc' = [pc EXCEPT ![t] = "init_thread"]
    /\ UNCHANGED bootFrame

\* __init__ lines 74-75: self._cleanup_thread = None, a new Event.
LLMManagerInitThread(t) ==
    /\ pc[t] = "init_thread"
    /\ singleton' = [singleton EXCEPT !.cleanup_thread = "None"]
    /\ pc' = [pc EXCEPT ![t] = "start_thread"]
    /\ UNCHANGED <<bootFrame, active, pool>>

\* LLMManager._start_cleanup_thread
StartCleanupThreadOp(s) ==
    IF s.cleanup_thread # "alive"
    THEN [s EXCEPT !.cleanup_thread = "alive", !.reapers = @ + 1]
    ELSE s

\* __init__ line 76: self._start_cleanup_thread().
LLMManagerStartThread(t) ==
    /\ pc[t] = "start_thread"
    /\ singleton' = StartCleanupThreadOp(singleton)
    /\ pc' = [pc EXCEPT ![t] = "assign"]
    /\ UNCHANGED <<bootFrame, active, pool>>

\* get_llm_manager lines 251-252: _llm_manager = LLMManager(); return it.
GetLlmManagerAssign(t) ==
    /\ pc[t] = "assign"
    /\ singleton' = [singleton EXCEPT !.global = TRUE]
    /\ pc' = [pc EXCEPT ![t] = "ready"]
    /\ UNCHANGED <<bootFrame, active, pool>>

\* A caller that has the manager registers an LLM with it.
ManagerUse(t, c) ==
    /\ pc[t] = "ready"
    /\ MgrRegister(c)

NextBoot ==
    \/ \E t \in Threads : GetLlmManagerCheck(t)
    \/ \E t \in Threads : LLMManagerNewCheck(t)
    \/ \E t \in Threads : LLMManagerNewCreate(t)
    \/ \E t \in Threads : LLMManagerNewMark(t)
    \/ \E t \in Threads : LLMManagerInitCheck(t)
    \/ \E t \in Threads : LLMManagerInitMaps(t)
    \/ \E t \in Threads : LLMManagerInitThread(t)
    \/ \E t \in Threads : LLMManagerStartThread(t)
    \/ \E t \in Threads : GetLlmManagerAssign(t)
    \/ \E t \in Threads, c \in Configs : ManagerUse(t, c)

SpecBoot == InitBoot /\ [][NextBoot]_vars

\* ------------------------------------- create_llm with the manager's lock
\* create_llm step by step, the manager's lock explicit: get_llm under the
\* lock, the constructor, register_llm under the lock.  Next to the callers
\* run the pool caller and the reaper of SpecConc.
buildFrame ==
    <<handle, registered, nameToIds, autoRegister, regLast, cPc, cCall, regLock,
      lifeVars, now, cleanupTime, last, poolJob>>

\* get_llm that leaves its with-block still owning the lock when it found
\* nothing.
LockKeptOnMiss(owner, ret) == IF ret = None THEN owner ELSE 0

\* The owner of the manager's lock once get_llm has returned: every return
\* of get_llm leaves the with-block.
LockAfterGet(owner, ret) == 0

\* create_llm lines 44-49: the hash, then get_llm takes the lock (line 152).
CreateLlmGetLock(t, c) ==
    LET h == ComputeConfigHash(c)
    IN  /\ pc[t] = "idle"
        /\ poolLock = 0
        /\ RefOf(h) < MaxMgrRef
        /\ poolLock' = t
        /\ thHash' = [thHash EXCEPT ![t] = h]
        /\ pc' = [pc EXCEPT ![t] = "lookup"]
        /\ UNCHANGED <<buildFrame, active, pool, thLlm>>

\* get_llm lines 153-169 and create_llm lines 50-51: the look-up; a hit ends
\* create_llm, a miss leads to the constructor.
CreateLlmGet(t) ==
    LET r == GetLlmOp(active, pool, thHash[t], now)
    IN  /\ pc[t] = "lookup"
        /\ poolLock = t
        /\ active' = r.active
        /\ pool' = r.pool
        /\ poolLock' = LockAfterGet(t, r.ret)
        /\ IF r.ret # None
           THEN /\ pc' = [pc EXCEPT ![t] = "idle"]
                /\ thHash' = [thHash EXCEPT ![t] = <<>>]
           ELSE /\ pc' = [pc EXCEPT ![t] = "construct"]
                /\ UNCHANGED thHash
        /\ UNCHANGED <<buildFrame, thLlm>>

\* create_llm lines 53-75: ChatOpenAI(...) returns.
CreateLlmConstruct(t) ==
    /\ pc[t] = "construct"
    /\ thLlm' = [thLlm EXCEPT ![t] = NewLlm(thHash[t])]
    /\ pc' = [pc EXCEPT ![t] = "register_wait"]
    /\ UNCHANGED <<buildFrame, active, pool, poolLock, thHash>>

\* create_llm lines 68-75: ChatOpenAI(...) raises; the exception leaves
\* create_llm.
CreateLlmConstructRaises(t) ==
    /\ pc[t] = "construct"
    /\ pc' = [pc EXCEPT ![t] = "idle"]
    /\ thHash' = [thHash EXCEPT ![t] = <<>>]
    /\ UNCHANGED <<buildFrame, active, pool, poolLock, thLlm>>

\* create_llm line 78 -> register_llm line 120: the lock, an RLock, which
\* its owner may take again.
CreateLlmRegisterLock(t) ==
    /\ pc[t] = "register_wait"
    /\ poolLock \in {0, t}
    /\ poolLock' = t
    /\ pc' = [pc EXCEPT ![t] = "register"]
    /\ UNCHANGED <<buildFrame, active, pool, thHash, thLlm>>

\* register_llm lines 121-141 and create_llm line 80.
CreateLlmRegistered(t) ==
    LET r == RegisterLlmOp(active, pool, thLlm[t], thHash[t], now)
    IN  /\ pc[t] = "register"
        /\ poolLock = t
        /\ active' = r.active
        /\ pool' = r.pool
        /\ poolLock' = 0
        /\ pc' = [pc EXCEPT ![t] = "idle"]
        /\ thHash' = [thHash EXCEPT ![t] = <<>>]
        /\ thLlm' = [thLlm EXCEPT ![t] = None]
        /\ UNCHANGED buildFrame

\* What the owner of the manager's lock does next.
LockOwnerStep(x) ==
    IF x \in Threads THEN CreateLlmGet(x) \/ CreateLlmRegistered(x)
    ELSE IF x = PoolCaller THEN PoolCallerOp
    ELSE ConcReaperScan

NextBuild ==
    \/ Tick
    \/ \E t \in Threads, c \in Configs : CreateLlmGetLock(t, c)
    \/ \E t \in Threads : CreateLlmGet(t)
    \/ \E t \in Threads : CreateLlmConstruct(t)
    \/ \E t \in Threads : CreateLlmConstructRaises(t)
    \/ \E t \in Threads : CreateLlmRegisterLock(t)
    \/ \E t \in Threads : CreateLlmRegistered(t)
    \/ \E op \in {"get_llm", "release_llm"}, h \in Hashes : PoolCallerLock(op, h)
    \/ PoolCallerOp
    \/ ConcReaperLock
    \/ ConcReaperScan

SpecBuild == Init /\ [][NextBuild]_vars

\* =================================================================== claims
\* C1: whenever release() has been called on every handle create_service has
\* returned for fingerprint f (and no create_service for f is under way), the
\* entry of f is not in the active set: it is idle with reference_count 0
\* (or already evicted from the idle pool).
C1_AllReleasedMeansIdle ==
    \A f \in Hashes :
        (/\ InFlight(f) = {}
         /\ \A t \in DOMAIN handle :
                handle[t].config_hash = f => handle[t].release_calls > 0)
        => f \notin DOMAIN active

\* C2: two create_llm calls in a row for configurations with the same
\* fingerprint (no release in between) return the same LLM instance and the
\* second raises the entry's reference_count by one; when the fingerprint
\* had no active entry before the first, the count is exactly 2 after both.
C2_IdentityReuse ==
    \A c1 \in Configs, c2 \in Configs :
        ComputeConfigHash(c1) = ComputeConfigHash(c2) =>
            LET h == ComputeConfigHash(c1)
                s1 == CreateLlmOp(active, pool, NewLlm(h), c1, now)
                s2 == CreateLlmOp(s1.active, s1.pool, NewLlmAmong(LiveLlms \cup {s1.ret}, h), c2, now)
            IN  /\ s1.ret # None
                /\ s2.ret = s1.ret
                /\ h \in DOMAIN s2.active
                /\ s2.active[h].llm = s1.ret
                /\ s2.active[h].reference_count = s1.active[h].reference_count + 1
                /\ h \notin DOMAIN active => s2.active[h].reference_count = 2

\* The second of two create_llm calls has returned: a hit, count 2.
C2_Witness ==
    /\ last.op = "create_llm"
    /\ last.branch = "hit"
    /\ last.hash \in DOMAIN active
    /\ active[last.hash].reference_count = 2

C4_ActiveIffReferenced ==
    /\ \A h \in DOMAIN active :
          /\ active[h].reference_count > 0
          /\ active[h].is_in_use
          /\ active[h].config_hash = h
    /\ \A i \in 1..Len(pool) :
          /\ pool[i].reference_count = 0
          /\ ~pool[i].is_in_use
          /\ \A j \in 1..Len(pool) : pool[j].config_hash = pool[i].config_hash => j = i
    /\ DOMAIN active \cap PoolKeys(pool) = {}

\* A release has just moved an entry to the idle pool, another is active.
C4_Witness ==
    /\ last.op = "release_llm"
    /\ last.branch = "to_pool"
    /\ InPool(pool, last.hash)
    /\ DOMAIN active # {}

\* C5: no step removes an entry with reference_count > 0 from the manager or
\* puts another entry in its place: after the step the same LLM instance is
\* still held under the fingerprint, in the active set or in the idle pool.
C5_ActiveEntryKept ==
    [][\A h \in DOMAIN active :
          \/ h \in DOMAIN active' /\ active'[h].llm = active[h].llm
          \/ InPool(pool', h) /\ PoolGet(pool', h).llm = active[h].llm]_vars

\* C6: for every idle entry, the next acquisition of its fingerprint (get_llm,
\* or register_llm offered a newly built instance) returns the pooled LLM
\* instance, moves the entry to the active set with reference_count 1 and
\* takes it out of the idle pool; register_llm does not store the new instance.
C6_Revival ==
    \A i \in 1..Len(pool) :
        LET e == pool[i]
            h == e.config_hash
            g == GetLlmOp(active, pool, h, now)
            r == RegisterLlmOp(active, pool, NewLlm(h), h, now)
        IN  /\ g.ret = e.llm
            /\ h \in DOMAIN g.active
            /\ g.active[h].llm = e.llm
            /\ g.active[h].reference_count = 1
            /\ ~InPool(g.pool, h)
            /\ r.ret = e.llm
            /\ h \in DOMAIN r.active
            /\ r.active[h].llm = e.llm
            /\ r.active[h].reference_count = 1
            /\ ~InPool(r.pool, h)
            /\ \A k \in DOMAIN r.active : r.active[k].llm # NewLlm(h)

\* register_llm has just revived an idle entry.
C6_Witness ==
    /\ last.op = "register_llm"
    /\ last.branch = "revive"
    /\ last.hash \in DOMAIN active
    /\ active[last.hash].reference_count = 1

\* A cleanup_unused pass under the lock: cleanupTime is its current_time.
ScanStep == cleanupTime # -1 /\ cleanupTime' = -1

\* C7: a cleanup pass removes every idle entry whose age (current_time -
\* last_used_at) is greater than cache_ttl; when the entries that are not
\* older than that number at most max_cache_size, the pool after the pass is
\* exactly those entries.
C7_TtlEviction ==
    [][ScanStep =>
         LET young == SelectSeq(pool, LAMBDA e : cleanupTime - e.last_used_at <= CacheTtl)
         IN  /\ \A i \in 1..Len(pool) :
                   cleanupTime - pool[i].last_used_at > CacheTtl
                       => ~InPool(pool', pool[i].config_hash)
             /\ Len(young) <= MaxCacheSize => pool' = young]_vars

\* A pass has removed an expired entry and left a younger one.
C7_Witness ==
    /\ last.op = "cleanup_unused"
    /\ last.branch = "ttl"
    /\ Len(pool) > 0

\* C8: when more than max_cache_size idle entries are not expired, a cleanup
\* pass leaves exactly max_cache_size of them, and no removed one was used
\* later than a kept one; the pass leaves the active set unchanged.
C8_LruBound ==
    [][ScanStep =>
         LET young == SelectSeq(pool, LAMBDA e : cleanupTime - e.last_used_at <= CacheTtl)
             was == {young[i] : i \in 1..Len(young)}
             kept == {pool'[i] : i \in 1..Len(pool')}
         IN  /\ active' = active
             /\ Len(young) > MaxCacheSize =>
                   /\ Len(pool') = MaxCacheSize
                   /\ kept \subseteq was
                   /\ \A e \in was \ kept, k \in kept :
                         e.last_used_at <= k.last_used_at]_vars

\* A pass has cut the idle pool down to max_cache_size; an entry is active.
C8_Witness ==
    /\ last.op = "cleanup_unused"
    /\ last.branch \in {"lru", "ttl+lru"}
    /\ Len(pool) = MaxCacheSize
    /\ DOMAIN active # {}

\* C9: once release() has been called on a handle, get_llm() on it returns
\* None and changes nothing in the manager, and invoke / batch_invoke /
\* stream raise.
C9_NoneAfterRelease ==
    \A t \in DOMAIN handle :
        handle[t].release_calls > 0 =>
            LET r == ServiceInvoke(active, pool, handle[t], now)
            IN  /\ r.ret = None
                /\ r.outcome = "ValueError"
                /\ r.active = active
                /\ r.pool = pool

\* C10: get_llm() on a handle returned by create_service, on which release()
\* has not been called, returns an LLM (not None).
C10_UnreleasedHandleHasLlm ==
    \A t \in DOMAIN handle :
        handle[t].release_calls = 0 =>
            ServiceGetLlm(active, pool, handle[t], now).ret # None

\* C11: a with scope on a handle acquires nothing on entry (no reference_count
\* changes, the handle is unchanged), and after the scope, left normally or
\* by an exception, the handle is released and has made its one decrement.
C11_ScopedRelease ==
    \A t \in DOMAIN handle, body \in ScopeBodies :
        LET w == WithScope(active, pool, handle[t], now, body)
        IN  /\ w.enter.active = active
            /\ w.enter.pool = pool
            /\ w.enter.service = handle[t]
            /\ w.exit.service.released
            /\ w.exit.service.decrements = 1

\* A step in which caller t completes an acquisition of fingerprint h:
\* create_llm's get_llm returned an instance, register_llm returned,
\* OpenAIService.__init__'s get_llm returned an instance, or a handle's
\* get_llm fetched one from the manager.
Acquired(t, h) ==
    \/ pc[t] = "idle" /\ pc'[t] = "init" /\ thHash'[t] = h
    \/ pc[t] = "register" /\ pc'[t] = "init" /\ thHash[t] = h
    \/ pc[t] = "init" /\ pc'[t] = "idle" /\ thHash[t] = h /\ handle'[t].llm # None
    \/ /\ t \in DOMAIN handle /\ t \in DOMAIN handle'
       /\ handle[t].config_hash = h
       /\ handle[t].llm = None /\ handle'[t].llm # None

\* A step in which caller t's handle completes a release_llm(h) that found
\* the entry active (a decrementing release).
Decremented(t, h) ==
    /\ t \in DOMAIN handle
    /\ handle[t].config_hash = h
    /\ h \in DOMAIN active
    /\ IF t \in DOMAIN handle'
       THEN handle'[t].decrements = handle[t].decrements + 1
       ELSE ~handle[t].released /\ handle[t].llm # None

\* C12: over every interleaving of the callers, each step changes a
\* fingerprint's reference_count (0 while it has no active entry) by exactly
\* the acquisitions completed minus the decrementing releases completed in
\* that step: the count is the running sum, nothing is lost or reset.
C12_CountIsLinearizedSum ==
    [][\A h \in Hashes :
          LET acq == Cardinality({t \in Threads : Acquired(t, h)})
              rel == Cardinality({t \in Threads : Decremented(t, h)})
              after == IF h \in DOMAIN active' THEN active'[h].reference_count ELSE 0
          IN  after = RefOf(h) + acq - rel]_vars

C14_CreateUnknownId ==
    [][\A id \in AgentIds, b \in FactoryBehaviours :
          (CreateAgent(id, b) /\ ~IsRegisteredOp(registered, id)) =>
              /\ CreateAgentOp(registered, id, b).error
                     = RegistryError("is not registered", "none", "none")
              /\ CreateAgentOp(registered, id, b).factory = "none"
              /\ CreateAgentOp(registered, id, b).ret = None
              /\ regLast' = [op |-> "create_agent", branch |-> "none",
                             outcome |-> "is not registered"]
              /\ registered' = registered
              /\ nameToIds' = nameToIds]_vars

C14_Witness ==
    /\ regLast.op = "create_agent"
    /\ regLast.outcome = "is not registered"
    /\ Len(registered) > 0

\* C15: with auto_register on, create_agent_by_name(name, config[, path]) for
\* a pair that is not registered stores exactly the entry, under exactly the
\* id, that register(name, config[, path]) would; it then ends as
\* create_agent(id) ends on the new registry (a graph from the module's
\* create_agent when the name has one and it returns); is_registered(id) is
\* true afterwards, and the same call made again adds no entry.
C15_AutoRegister ==
    \A n \in AgentNames, c \in AgentConfigs, p \in AnyConfigPaths,
       b \in FactoryBehaviours :
        LET reg == RegisterOp(registered, nameToIds, n, c, p, NoFunc, FALSE)
            r == CreateAgentByNameOp(registered, nameToIds, TRUE, n, c, p, b)
            made == CreateAgentOp(r.registered, reg.ret, b)
            again == CreateAgentByNameOp(r.registered, r.name_to_ids, TRUE, n, c, p, b)
        IN  ~IsRegisteredOp(registered, reg.ret) =>
                /\ r.branch = "auto"
                /\ r.id = reg.ret
                /\ r.registered = reg.registered
                /\ r.name_to_ids = reg.name_to_ids
                /\ Len(r.registered) = Len(registered) + 1
                /\ IsRegisteredOp(r.registered, reg.ret)
                /\ r.ret = made.ret /\ r.factory = made.factory /\ r.error = made.error
                /\ (ModuleOf(n) = "ok" /\ b = "returns") =>
                       (r.ret = "graph" /\ r.factory = "module" /\ r.error = NoError)
                /\ again.branch = "known"
                /\ again.registered = r.registered
                /\ again.name_to_ids = r.name_to_ids

C15_Witness ==
    /\ autoRegister
    /\ regLast = [op |-> "create_agent_by_name", branch |-> "auto", outcome |-> "ok"]
    /\ \E i \in 1..Len(registered) : registered[i].config_path # NoPath

\* C16: while auto_register is off, create_agent_by_name(name, config[, path])
\* for a pair that is not registered raises the "is not registered" error,
\* calls no factory and leaves both registry maps unchanged; for a registered
\* pair it returns or raises exactly what create_agent(id) does, calling the
\* same factory, and the registry is unchanged as well.
C16_StrictMode ==
    ~autoRegister =>
        \A n \in AgentNames, c \in AgentConfigs \cup {None}, p \in AnyConfigPaths,
           b \in FactoryBehaviours :
            LET id == ComputeAgentId(n, LoadConfig(IF c = None THEN <<>> ELSE c, p, FALSE))
                r == CreateAgentByNameOp(registered, nameToIds, autoRegister, n, c, p, b)
                made == CreateAgentOp(registered, id, b)
            IN  /\ r.registered = registered
                /\ r.name_to_ids = nameToIds
                /\ IF IsRegisteredOp(registered, id)
                   THEN /\ r.branch = "known"
                        /\ r.ret = made.ret
                        /\ r.factory = made.factory
                        /\ r.error = made.error
                   ELSE /\ r.branch = "strict"
                        /\ r.error = RegistryError("is not registered", "none", n)
                        /\ r.factory = "none"
                        /\ r.ret = None

C16_Witness ==
    /\ ~autoRegister
    /\ regLast = [op |-> "create_agent_by_name", branch |-> "strict",
                  outcome |-> "is not registered"]
    /\ Len(registered) > 0

\* C17: whatever goes wrong while create_agent builds a registered entry (its
\* create_func raises, the module's create_agent raises, the module cannot be
\* imported, the module has no create_agent), the caller gets the registry's
\* own error (the ValueError create_agent raises, "Failed to create agent" or
\* "Failed to import agent module") raised from the original exception and
\* naming the entry; a factory that raises never ends the call in another way.
C17_FactoryErrorsWrapped ==
    \A i \in 1..Len(registered), b \in FactoryBehaviours :
        LET entry == registered[i]
            r == CreateAgentOp(registered, entry.agent_id, b)
            failing == \/ r.factory # "none" /\ b \in FactoryRaises
                       \/ entry.create_func = NoFunc /\ ModuleOf(entry.name) # "ok"
        IN  /\ failing <=> r.error # NoError
            /\ failing =>
                  /\ r.ret = None
                  /\ r.error.type = "ValueError"
                  /\ r.error.msg \in {"Failed to create agent",
                                      "Failed to import agent module"}
                  /\ r.error.name = entry.name
                  /\ r.error.cause # "none"
                  /\ r.factory # "none" => r.error.cause = b
                  /\ (r.factory = "none" /\ ModuleOf(entry.name) = "absent")
                        => r.error.cause = "ImportError"

C17_Witness ==
    /\ regLast = [op |-> "create_agent", branch |-> "create_func",
                  outcome |-> "Failed to create agent"]
    /\ \E i \in 1..Len(registered) :
          registered[i].create_func = NoFunc /\ ModuleOf(registered[i].name) = "absent"

\* C18: the kind (type) of an error alone tells "never registered"
\* (create_agent on an unknown id, create_agent_by_name in strict mode) from
\* "construction failed" (create_agent on a registered entry whose factory
\* fails): whenever one call ends with the former and another with the
\* latter, the two errors have different types.
C18_ErrorKindsDistinct ==
    \A id \in AgentIds, i \in 1..Len(registered),
       n \in AgentNames, c \in AgentConfigs, b \in FactoryBehaviours :
        LET unknown == CreateAgentOp(registered, id, b).error
            strict == CreateAgentByNameOp(registered, nameToIds, FALSE,
                                          n, c, NoPath, b)
            failed == CreateAgentOp(registered, registered[i].agent_id, b).error
        IN  failed # NoError =>
              /\ ~IsRegisteredOp(registered, id) => unknown.type # failed.type
              /\ strict.branch = "strict" => strict.error.type # failed.type

\* C19: register(name, config) for a name with no resolvable factory (no
\* create_func passed, and no module src.agent.<name>.agent with a
\* create_agent) raises an error and adds no entry: both registry maps are as
\* before the call.
C19_RegisterUnknownFactory ==
    \A n \in AgentNames, c \in AgentConfigs, p \in AnyConfigPaths, k \in BOOLEAN :
        LET r == RegisterOp(registered, nameToIds, n, c, p, NoFunc, k)
        IN  ModuleOf(n) # "ok" =>
              /\ r.error # NoError
              /\ r.registered = registered
              /\ r.name_to_ids = nameToIds

\* The ids registered under name, in the order register stored them.
RegistrationOrder(reg, name) ==
    LET es == SelectSeq(reg, LAMBDA e : e.name = name)
    IN  [i \in 1..Len(es) |-> es[i].agent_id]

\* C20: for every name, whatever get_agent_ids_by_name(name) returns is the
\* list of the ids registered under the name, each once, in registration
\* order: the empty list for a name with no registration.
C20_IdsInRegistrationOrder ==
    \A n \in AgentNames :
        \A ids \in GetAgentIdsByName(nameToIds, n) :
            ids = RegistrationOrder(registered, n)

\* C21: an entry of the registry is permanent.  Over every step (register,
\* create_agent with any outcome, create_agent_by_name in either mode, the
\* auto_register switches) every id that is registered before the step is
\* registered after it, with the same name and the same id in its entry, and
\* is still listed under its name.
C21_EntriesPermanent ==
    [][\A i \in 1..Len(registered) :
          LET e == registered[i]
          IN  /\ IsRegisteredOp(registered', e.agent_id)
              /\ EntryOf(registered', e.agent_id).name = e.name
              /\ EntryOf(registered', e.agent_id).agent_id = e.agent_id
              /\ e.name \in DOMAIN nameToIds'
              /\ e.agent_id \in nameToIds'[e.name]]_vars

C21_Witness ==
    /\ Len(registered) = MaxAgents
    /\ ~autoRegister
    /\ regLast = [op |-> "create_agent", branch |-> "none",
                  outcome |-> "Failed to import agent module"]

C23_ReaperCancelable ==
    /\ [](afterStop <= 1)
    /\ [][reaperPc = "exited" => (reaperPc' = "exited" /\ cleanupTime' = -1)]_vars
    /\ [][stopCleanup' # stopCleanup =>
            (active' = active /\ pool' = pool /\ cleanupTime' = cleanupTime)]_vars
    /\ [](stopCleanup => \A h \in Hashes :
            /\ RefOf(h) < MaxMgrRef => ENABLED MgrGet(h)
            /\ ENABLED MgrRelease(h))
    /\ (stopCleanup ~> (reaperPc = "exited"))

C23_Witness ==
    /\ reaperPc = "exited"
    /\ afterStop = 1
    /\ Len(pool) > 0
    /\ DOMAIN active # {}

\* The entry stored for fingerprint h, wherever it is, with the map it is in.
EntryAt(a, p, h) ==
    IF h \in DOMAIN a THEN [place |-> "active", entry |-> a[h]]
    ELSE IF InPool(p, h) THEN [place |-> "pool", entry |-> PoolGet(p, h)]
    ELSE [place |-> "none", entry |-> None]

\* C24: configurations with different sorted items have different
\* fingerprints and their own entries: a call of create_llm, register_llm,
\* get_llm or release_llm for one fingerprint leaves the entry of every
\* other fingerprint (its LLM, reference_count, last_used_at, and whether it
\* is active, idle or absent) as it was, and no entry is stored under a
\* fingerprint other than its own.
C24_DistinctConfigsDistinctEntries ==
    [][/\ \A c1, c2 \in Configs :
             SortedItems(c1) # SortedItems(c2)
                => ComputeConfigHash(c1) # ComputeConfigHash(c2)
       /\ \A h \in Hashes :
             EntryAt(active', pool', h).place # "none"
                => EntryAt(active', pool', h).entry.config_hash = h
       /\ \A c \in Configs :
             (\/ MgrCreateLlm(c) \/ MgrRegister(c)
              \/ MgrGet(ComputeConfigHash(c)) \/ MgrRelease(ComputeConfigHash(c))) =>
                 \A h2 \in Hashes \ {ComputeConfigHash(c)} :
                     EntryAt(active', pool', h2) = EntryAt(active, pool, h2)]_vars

\* An acquisition for one fingerprint while the other has an active and
\* nothing else changed: two entries side by side.
C24_Witness ==
    /\ last.op \in {"create_llm", "get_llm"}
    /\ \E h2 \in Hashes \ {last.hash} :
          /\ EntryAt(active, pool, h2).place = "pool"
          /\ last.hash \in DOMAIN active
          /\ active[last.hash].llm # PoolGet(pool, h2).llm

\* C25: when the constructor raises during an acquisition (the caller's
\* get_llm found no entry), the caller gets a ConstructionError and nothing
\* was inserted: active set and idle pool, with every reference count, are
\* as before.
C25_ConstructionErrorNoInsert ==
    \A t \in Threads :
        pc[t] = "construct" =>
            \A exc \in ConstructorRaises :
                LET r == CreateLlmRaises(active, pool, exc)
                IN  /\ r.error.type = "ConstructionError"
                    /\ r.active = active
                    /\ r.pool = pool

\* C26 as claimed: when create_agent_by_name (or create_agent) fails because
\* the factory raised, _registered_agents and _name_to_ids are exactly as
\* before the call.
C26_RegistryUnchangedOnFailure ==
    \A n \in AgentNames, c \in AgentConfigs \cup {None}, p \in ConfigPaths,
       b \in FactoryRaises :
        LET r == CreateAgentByNameOp(registered, nameToIds, autoRegister, n, c, p, b)
        IN  (r.error # NoError /\ r.factory # "none") =>
                (r.registered = registered /\ r.name_to_ids = nameToIds)

\* C26 as amended: a failed construction leaves no half-made insertion.
\* create_agent writes neither map.  create_agent_by_name whose factory
\* raised leaves both maps as before when the pair was registered; when it
\* auto-registered the pair, the registry has gained that one entry and
\* nothing else: the entry (name, id, merged config) at the end of
\* _registered_agents and its id under its name in _name_to_ids, every other
\* entry and every other name's ids untouched.
C26_NoPartialInsert ==
    /\ [][\A id \in AgentIds, b \in FactoryBehaviours :
             CreateAgent(id, b) => (registered' = registered /\ nameToIds' = nameToIds)]_vars
    /\ [](\A n \in AgentNames, c \in AgentConfigs \cup {None}, p \in ConfigPaths,
             b \in FactoryRaises :
            LET merged == LoadConfig(IF c = None THEN <<>> ELSE c, p, FALSE)
                id == ComputeAgentId(n, merged)
                r == CreateAgentByNameOp(registered, nameToIds, autoRegister, n, c, p, b)
                before == IF n \in DOMAIN nameToIds THEN nameToIds[n] ELSE {}
            IN  (r.error # NoError /\ r.factory # "none") =>
                    IF IsRegisteredOp(registered, id)
                    THEN r.registered = registered /\ r.name_to_ids = nameToIds
                    ELSE /\ autoRegister
                         /\ Len(r.registered) = Len(registered) + 1
                         /\ SubSeq(r.registered, 1, Len(registered)) = registered
                         /\ r.registered[Len(r.registered)]
                               = AgentEntry(n, id, merged, p, NoFunc)
                         /\ DOMAIN r.name_to_ids = DOMAIN nameToIds \cup {n}
                         /\ r.name_to_ids[n] = before \cup {id}
                         /\ \A m \in DOMAIN nameToIds \ {n} :
                               r.name_to_ids[m] = nameToIds[m])

C26_Witness ==
    /\ regLast = [op |-> "create_agent_by_name", branch |-> "auto",
                  outcome |-> "Failed to create agent"]
    /\ Len(registered) = MaxAgents

\* C27: a release_llm that brings an entry's reference_count to 0 moves the
\* entry from the active set to the idle pool and stamps its last_used_at
\* with the time of the release.
C27_ReleaseStampsIdleClock ==
    [][\A h \in Hashes :
          (MgrRelease(h) /\ h \in DOMAIN active /\ active[h].reference_count = 1) =>
              /\ h \notin DOMAIN active'
              /\ InPool(pool', h)
              /\ PoolGet(pool', h).reference_count = 0
              /\ PoolGet(pool', h).last_used_at = now]_vars

\* C28: at any time the unreleased handles of one fingerprint that hold an
\* LLM hold the same instance, and while the fingerprint has an entry that
\* entry's instance is the only one handed out for it: by a handle, or by
\* create_llm to a caller on its way to its handle.
C28_OneInstancePerFingerprint ==
    /\ \A t, u \in DOMAIN handle :
          (/\ handle[t].config_hash = handle[u].config_hash
           /\ ~handle[t].released /\ ~handle[u].released
           /\ handle[t].llm # None /\ handle[u].llm # None)
              => handle[t].llm = handle[u].llm
    /\ \A h \in Hashes :
          EntryAt(active, pool, h).place # "none" =>
              /\ \A t \in DOMAIN handle :
                    (handle[t].config_hash = h /\ ~handle[t].released
                       /\ handle[t].llm # None)
                        => handle[t].llm = EntryAt(active, pool, h).entry.llm
              /\ \A t \in Threads :
                    (pc[t] = "init" /\ thHash[t] = h)
                        => thLlm[t] = EntryAt(active, pool, h).entry.llm

\* A thread that is inside a call.
InCall(x) ==
    IF x \in Threads THEN cPc[x] # "idle"
    ELSE IF x = PoolCaller THEN poolJob # NoJob
    ELSE poolLock = Reaper

\* C29: registry calls (whose factories acquire from the pool), manager
\* calls and reaper passes never deadlock.  The holder of the manager's lock
\* can always take its next step (it never waits for the registry's lock);
\* the holder of the registry's lock can take its next step or waits for
\* the manager's lock alone; a thread inside a call that cannot step waits
\* for a lock that is held; so whenever a thread is inside a call, some
\* thread inside a call can step.
C29_NoDeadlock ==
    /\ poolLock # 0 => ENABLED StepOf(poolLock)
    /\ regLock # 0 =>
          \/ ENABLED StepOf(regLock)
          \/ cPc[regLock] = "factory_wait" /\ poolLock \notin {0, regLock}
    /\ \A x \in 1..Reaper :
          (InCall(x) /\ ~ENABLED StepOf(x)) =>
              \/ x \in Threads /\ cPc[x] = "factory_wait" /\ poolLock \notin {0, x}
              \/ x \in Threads /\ cPc[x] \in {"by_name_block", "create_agent", "register_block"}
                    /\ regLock \notin {0, x}
    /\ (\E x \in 1..Reaper : InCall(x)) =>
          \E x \in 1..Reaper : InCall(x) /\ ENABLED StepOf(x)

\* A factory holds the registry's lock and waits for the manager's lock,
\* which the pool caller or the reaper holds, while the other caller waits
\* for the registry's lock.
C29_Witness ==
    /\ regLock = 1 /\ cPc[1] = "factory_wait"
    /\ poolLock \in {PoolCaller, Reaper}
    /\ cPc[2] \in {"by_name_block", "create_agent", "register_block"}

\* C30: while the manager is not shut down the reaper keeps making cleanup
\* passes (from any state there is a later pass, unless shutdown comes); so
\* an idle entry older than cache_ttl is in the end out of the idle pool
\* (removed by a pass, if it was not taken back into use), and an idle pool
\* larger than max_cache_size is in the end back to max_cache_size or less.
C30_ReaperPurges ==
    /\ (~stopCleanup) ~> (reaperPc = "scan" \/ stopCleanup)
    /\ \A h \in Hashes :
          (InPool(pool, h) /\ now - PoolGet(pool, h).last_used_at > CacheTtl
             /\ ~stopCleanup)
              ~> (~InPool(pool, h) \/ stopCleanup)
    /\ (Len(pool) > MaxCacheSize /\ ~stopCleanup)
          ~> (Len(pool) <= MaxCacheSize \/ stopCleanup)

\* The last manager call released an entry into the idle pool, and now,
\* with the reaper still running, nothing is active and the pool is empty:
\* a pass has removed it.
C30_Witness ==
    /\ ~stopCleanup
    /\ reaperPc = "wait"
    /\ last.op = "release_llm" /\ last.branch = "to_pool"
    /\ pool = <<>>
    /\ active = EmptyDict

\* The call create_agent makes for a registered entry whose factory is
\* reached: the routine is the entry's own create_func when it has one, else
\* the create_agent attribute of the module named after the entry, looked up
\* at this call; args is the argument list of the call, which is empty on both
\* paths.
FactoryCall(entry) ==
    IF entry.create_func # NoFunc
    THEN [routine |-> <<"create_func", entry.create_func>>, args |-> <<>>]
    ELSE [routine |-> <<"module", entry.name>>, args |-> <<>>]

FactoryReached(reg, id) == CreateAgentOp(reg, id, "returns").factory # "none"

\* C31: the factory is bound to the logical name: any two registered entries
\* of one name are created by the same routine, and create_agent(id) calls
\* that routine with the entry's own config.
C31_FactoryPerName ==
    \A i \in 1..Len(registered) :
        FactoryReached(registered, registered[i].agent_id) =>
            /\ FactoryCall(registered[i]).args = <<registered[i].config>>
            /\ \A j \in 1..Len(registered) :
                   /\ registered[j].name = registered[i].name
                   /\ FactoryReached(registered, registered[j].agent_id)
                   => FactoryCall(registered[j]).routine
                          = FactoryCall(registered[i]).routine

\* C33: the registry's critical sections never wait on a factory: while the
\* factory called by create_agent runs for one id, a register, a
\* create_agent_by_name lookup or a create_agent another thread has arrived
\* at for another id can take its step at once.
C33_NoWaitOnFactory ==
    \A t, u \in Threads :
        /\ cPc[t] \in {"factory", "factory_wait", "factory_pool", "factory_done"}
        /\ u # t
        /\ cPc[u] \in {"register_block", "by_name_block", "create_agent"}
        /\ cCall[u].agent_id # cCall[t].agent_id
        => ENABLED CallerStep(u)

\* C34: release_llm of a fingerprint that is unknown or idle in the cache
\* pool, and get_llm of an unknown fingerprint, change neither pool nor any
\* entry (reference_count and last_used_at included); get_llm returns None.
C34_SilentNoOps ==
    \A h \in Hashes :
        /\ h \notin DOMAIN active =>
              LET r == ReleaseLlmOp(active, pool, h)
              IN  r.active = active /\ r.pool = pool /\ r.ret = None
        /\ (h \notin DOMAIN active /\ ~InPool(pool, h)) =>
              LET g == GetLlmOp(active, pool, h, now)
              IN  g.active = active /\ g.pool = pool /\ g.ret = None

\* release_llm has just been called for a fingerprint that sits idle in the
\* cache pool, last used at an earlier time.
C34_Witness ==
    /\ last.op = "release_llm"
    /\ last.branch = "unknown"
    /\ InPool(pool, last.hash)
    /\ PoolGet(pool, last.hash).last_used_at < now

\* AgentManager.get_stats
GetStats(reg, n2i, auto) ==
    [registered_agents |-> Len(reg),
     agents_by_name |-> [n \in DOMAIN n2i |-> Cardinality(n2i[n])],
     auto_register |-> auto]

RECURSIVE SumOver(_, _)
SumOver(f, S) ==
    IF S = {} THEN 0
    ELSE LET x == CHOOSE y \in S : TRUE IN f[x] + SumOver(f, S \ {x})

\* C37: the two indices agree: the ids listed under the names are exactly the
\* keys of the entry map, each id is listed under the name its entry stores
\* and under no other, and get_stats' registered_agents is the sum of its
\* agents_by_name counts.
C37_IndexConsistency ==
    LET stats == GetStats(registered, nameToIds, autoRegister)
    IN  /\ UNION {nameToIds[n] : n \in DOMAIN nameToIds}
               = {registered[i].agent_id : i \in 1..Len(registered)}
        /\ \A i \in 1..Len(registered), n \in DOMAIN nameToIds :
               registered[i].agent_id \in nameToIds[n] <=> n = registered[i].name
        /\ \A i \in 1..Len(registered) : registered[i].name \in DOMAIN nameToIds
        /\ stats.registered_agents
               = SumOver(stats.agents_by_name, DOMAIN stats.agents_by_name)

\* Two entries registered under one name.
C37_Witness ==
    /\ Len(registered) = 2
    /\ registered[1].name = registered[2].name
    /\ Cardinality(nameToIds[registered[1].name]) = 2

CountIn(a, h) == IF h \in DOMAIN a THEN a[h].reference_count ELSE 0

\* C38: a handle caches its acquisition: however often get_llm() is called on
\* an unreleased handle, the entry's reference_count rises by at most one in
\* all (by nothing when the handle already holds the LLM), and a get_llm()
\* that found no entry changes nothing, so a later call can still acquire.
C38_HandleCachesAcquisition ==
    \A t \in DOMAIN handle :
        ~handle[t].released =>
            LET s == handle[t]
                h == s.config_hash
                r1 == ServiceGetLlm(active, pool, s, now)
                r2 == ServiceGetLlm(r1.active, r1.pool, r1.service, now)
                r3 == ServiceGetLlm(r2.active, r2.pool, r2.service, now)
            IN  /\ CountIn(r3.active, h) - CountIn(active, h)
                       <= (IF s.llm = None THEN 1 ELSE 0)
                /\ r1.ret # None => r2.active = r1.active /\ r3.active = r1.active
                /\ r1.ret # None => r2.ret = r1.ret /\ r3.ret = r1.ret
                /\ r1.ret = None =>
                       r1.service = s /\ r1.active = active /\ r1.pool = pool

\* One caller's unreleased handle holds the LLM of an entry that another
\* caller's unreleased handle, on the same fingerprint, has not acquired.
C38_Witness ==
    \E t, u \in DOMAIN handle :
        /\ ~handle[t].released /\ handle[t].llm # None
        /\ ~handle[u].released /\ handle[u].llm = None
        /\ handle[u].config_hash = handle[t].config_hash
        /\ CountIn(active, handle[t].config_hash) >= 1

\* What the registry holds, read off the manager record.
RegistryOf(m) == <<m.auto_register, m.registered, m.name_to_ids>>

\* C35: the registry is a singleton whose auto_register mode is fixed by the
\* first construction: the first AgentManager(auto_register=x) or
\* get_agent_manager(x) sets the flag to x; every later construction or getter
\* call, whatever its argument, leaves the instance, the flag and the entries
\* as they are; only enable_auto_register and disable_auto_register change
\* the flag.
C35_SingletonModeFixed ==
    /\ [](\A x, y, g \in BOOLEAN :
            /\ AgentManagerCall(NoManager, x).auto_register = {x}
            /\ GetAgentManagerOp(NoManager, x).auto_register = {x}
            /\ RegistryOf(AgentManagerCall(AgentManagerCall(NoManager, x), y))
                   = RegistryOf(AgentManagerCall(NoManager, x))
            /\ RegistryOf(AgentManagerCall(ManagerObject(g), y))
                   = RegistryOf(ManagerObject(g))
            /\ RegistryOf(GetAgentManagerOp(ManagerObject(g), y))
                   = RegistryOf(ManagerObject(g))
            /\ AgentManagerCall(ManagerObject(g), y).instance
            /\ GetAgentManagerOp(ManagerObject(g), y).instance)
    /\ [][\A x \in BOOLEAN :
            NewAgentManager(x) \/ GetAgentManager(x)
                => UNCHANGED <<registered, nameToIds, autoRegister>>]_vars
    /\ [][autoRegister' # autoRegister
            => EnableAutoRegister \/ DisableAutoRegister]_vars

\* get_agent_manager(auto_register=True) has just been called on a registry
\* that holds an entry and is in strict mode.
C35_Witness ==
    /\ regLast = [op |-> "get_agent_manager", branch |-> "auto_register=True",
                  outcome |-> "ok"]
    /\ autoRegister = FALSE
    /\ Len(registered) >= 1

\* C36: the first construction of the LLM manager happens exactly once, also
\* when several threads ask for it at the same time: the pools and the lock
\* are set up once, no entry registered with the manager is lost to a second
\* set-up, and one cleanup thread is started.
C36_InitialisedOnce ==
    /\ [](singleton.inits <= 1)
    /\ [](singleton.reapers <= 1)
    /\ [][\A h \in DOMAIN active : h \in DOMAIN active']_vars

\* C32: the pool's lock is not held while an LLM is constructed: a caller
\* inside the constructor for one fingerprint never owns the lock, so with
\* the lock free another caller's get_llm or release_llm on another
\* fingerprint and a pass of the reaper can begin, and whoever owns the lock
\* can finish its call.
C32_ConstructOutsideLock ==
    \A t \in Threads :
        pc[t] = "construct" =>
            /\ poolLock # t
            /\ poolLock # 0 => ENABLED LockOwnerStep(poolLock)
            /\ (poolLock = 0 /\ poolJob = NoJob) =>
                   \A h \in Hashes \ {thHash[t]} :
                       /\ ENABLED PoolCallerLock("release_llm", h)
                       /\ RefOf(h) < MaxMgrRef => ENABLED PoolCallerLock("get_llm", h)
            /\ (poolLock = 0 /\ cleanupTime = -1) => ENABLED ConcReaperLock

\* One caller is inside the constructor while the pool caller is inside
\* get_llm for another fingerprint, lock in hand, and an idle entry waits for
\* the reaper.
C32_Witness ==
    \E t \in Threads :
        /\ pc[t] = "construct"
        /\ poolLock = PoolCaller
        /\ poolJob.op = "get_llm"
        /\ poolJob.hash # thHash[t]
        /\ Len(pool) >= 1
====
